---------------------------- MODULE Spec2Model ----------------------------
(***************************************************************************)
(* Model of the hybrid-electric aircraft sizing program (aircraft.py,      *)
(* powertrain.py, dual_motor_powertrain.py, mission.py, constraints.py,    *)
(* atmosphere.py).                                                         *)
(*                                                                         *)
(* Numbers.  The program computes in binary floating point; the model      *)
(* computes in fixed point on integers:                                    *)
(*   - dimensional quantities (lb, kg, kW, ft, ft2, psf, ft/s, kts, s, nm) *)
(*     are held in thousandths of their unit (scale Q);                    *)
(*   - dimensionless quantities (Hp, efficiencies, fractions, lift and     *)
(*     drag coefficients, tolerance, error) are held in millionths         *)
(*     (scale U);                                                          *)
(*   - air density (slug/ft3) is held in units of 1e-8 (scale RHO);        *)
(*   - fuel rate (kg/s) is held in millionths (scale U);                   *)
(*   - battery power (W) and battery energy (Wh) are held in whole units.  *)
(* Every product/quotient rounds toward zero, so a result agrees with the  *)
(* real-number value of the source expression up to the last digit held.   *)
(***************************************************************************)
EXTENDS Integers, Sequences, FiniteSets, TLC

-----------------------------------------------------------------------------
(* Fixed-point toolkit *)

Q == 10 * 10 * 10
U == Q * Q
RHO == 100 * U

Abs(x) == IF x < 0 THEN -x ELSE x
Sgn(x) == IF x < 0 THEN -1 ELSE 1
Min2(a, b) == IF a <= b THEN a ELSE b
Max2(a, b) == IF a >= b THEN a ELSE b

\* <<q, r>> with a*b = q*c + r and 0 <= r < c, for a, b >= 0 and c > 0, by
\* long multiplication over the digits of b in base B; no intermediate value
\* exceeds c * (B + 1), so B is chosen from c to stay within 32 bits.
RECURSIVE MulDivQR(_, _, _, _)
MulDivQR(a, b, c, B) ==
    IF b = 0 THEN <<0, 0>>
    ELSE LET h  == MulDivQR(a, b \div B, c, B)
             d  == b % B
             ad == (a % c) * d
             r  == h[2] * B + (ad % c)
         IN  <<h[1] * B + (a \div c) * d + (ad \div c) + (r \div c), r % c>>

\* The base of MulDivQR for a divisor c.
BaseFor(c) ==
    IF c <= 2000000 THEN 1024 ELSE IF c <= 32000000 THEN 64
    ELSE IF c <= 120000000 THEN 16 ELSE IF c <= 420000000 THEN 4 ELSE 2

\* a*b/U for 0 <= a, b <= 10^9, from the halves of a and b in base 1000.
MulDivU(a, b) ==
    (a \div 1000) * (b \div 1000)
        + (((a \div 1000) * (b % 1000) + (a % 1000) * (b \div 1000)
              + ((a % 1000) * (b % 1000)) \div 1000) \div 1000)

\* a*b/c rounded toward zero, for any signs of a and b, c > 0.
MulDiv(a, b, c) ==
    IF b = 0 \/ c < 1 THEN 0
    ELSE IF a >= 0 /\ b > 0 /\ a <= 2147483647 \div b THEN (a * b) \div c
    ELSE IF a >= 0 /\ b > 0 /\ c = 1000000 /\ a <= 1000000000 /\ b <= 1000000000
    THEN MulDivU(a, b)
    ELSE Sgn(a) * Sgn(b)
           * MulDivQR(Max2(Abs(a), Abs(b)), Min2(Abs(a), Abs(b)), c, BaseFor(c))[1]

\* One step of Newton's iteration for the integer square root of n.
ISqrtStep(n, y) == (y + n \div y) \div 2

\* A power of two no smaller than sqrt(n), for 0 < n < 2^31.
ISqrtGuess(n) ==
    IF n < 256 THEN 16 ELSE IF n < 4096 THEN 64
    ELSE IF n < 65536 THEN 256 ELSE IF n < 1048576 THEN 1024
    ELSE IF n < 16777216 THEN 4096 ELSE IF n < 268435456 THEN 16384
    ELSE 46341

\* The integer square root of n (0 <= n < 2^31), to within 1 part in 10^4:
\* Newton's iteration from above.
ISqrt(n) ==
    IF n <= 0 THEN 0
    ELSE ISqrtStep(n, ISqrtStep(n, ISqrtStep(n, ISqrtStep(n, ISqrtGuess(n)))))

\* 1000 * sqrt(x) for 0 <= x <= 2 * 10^9: one exact Newton step from the
\* integer square root s, 1000 * (s + (x - s*s) / (2*s)).
SqrtMilli(x) ==
    IF x <= 0 THEN 0
    ELSE (LET s == ISqrt(x) IN 1000 * s + (1000 * (x - s * s)) \div (2 * s))

\* Square root of a scale-U value, as a scale-U value: sqrt(x*U).
SqrtU(x) == SqrtMilli(x)
\* Square root of a scale-Q value, as a scale-Q value: sqrt(x/Q)*Q = sqrt(x*Q),
\* with sqrt(Q) = 31.6228.
SqrtQ(x) == MulDivU(SqrtMilli(x), 316228) \div 10
\* Square root of a scale-Q value, as a scale-U value: sqrt(x/Q)*U = sqrt(x*Q*U),
\* with sqrt(Q*U)/1000 = 31.622777.
SqrtQU(x) == LET y == SqrtMilli(x) IN 31 * y + MulDivU(y, 622777)

-----------------------------------------------------------------------------
(* Strings with case: an architecture name is a tuple of characters, so    *)
(* that str.lower() is a computation and not the identity.                 *)

UpperChars == <<"A","B","C","D","E","F","G","H","I","J","K","L","M",
                "N","O","P","Q","R","S","T","U","V","W","X","Y","Z">>
LowerChars == <<"a","b","c","d","e","f","g","h","i","j","k","l","m",
                "n","o","p","q","r","s","t","u","v","w","x","y","z">>

\* str.lower() on one character.
LowerChar(c) ==
    IF \E i \in 1..26 : UpperChars[i] = c
    THEN LowerChars[CHOOSE i \in 1..26 : UpperChars[i] = c]
    ELSE c

\* str.lower()
Lower(s) == [i \in 1..Len(s) |-> LowerChar(s[i])]

\* The keys of arch_map, in the order of the literal.
ArchKeys == <<
    <<"c","o","n","v","e","n","t","i","o","n","a","l">>,
    <<"p","a","r","a","l","l","e","l">>,
    <<"s","e","r","i","a","l">>,
    <<"e","l","e","c","t","r","i","c">>,
    <<"d","u","a","l","_","m","o","t","o","r","_","d","e","p">>,
    <<"m","u","l","t","i","_","e","n","g","i","n","e">> >>

\* The class each key of arch_map maps to.
ArchClasses == <<"Conventional", "ParallelHybrid", "SerialHybrid",
                 "FullyElectric", "DualMotorDEP", "MultiEngine">>

\* A membership test that accepts every name (the check of line 100 left out).
AnyKeyInArchMap(key) == TRUE

\* `key in arch_map`
InArchMap(key) == \E i \in 1..Len(ArchKeys) : ArchKeys[i] = key

\* arch_map[key]; "KeyError" stands for the exception of a missing key.
ArchMapGet(key) ==
    LET hits == {i \in 1..Len(ArchKeys) : ArchKeys[i] = key}
    IN  IF hits = {} THEN "KeyError" ELSE ArchClasses[CHOOSE i \in hits : TRUE]

-----------------------------------------------------------------------------
(* Python dict with insertion order: a sequence of <<key, value>> pairs    *)
(* with distinct keys.  An Optional value is a tuple of length 0 (None) or  *)
(* 1 (the value).                                                          *)

None == <<>>
Some(x) == <<x>>

DictKeys(d) == {d[i][1] : i \in 1..Len(d)}
\* dict.get(key, default)
DictGet(d, key, default) ==
    IF key \in DictKeys(d)
    THEN d[CHOOSE i \in 1..Len(d) : d[i][1] = key][2]
    ELSE default
\* dict.values(), in insertion order
DictValues(d) == [i \in 1..Len(d) |-> d[i][2]]
\* max() of a non-empty sequence
RECURSIVE SeqMax(_)
SeqMax(s) == IF Len(s) = 1 THEN s[1] ELSE Max2(s[1], SeqMax(Tail(s)))
\* sum() of a sequence
RECURSIVE SeqSum(_)
SeqSum(s) == IF Len(s) = 0 THEN 0 ELSE s[1] + SeqSum(Tail(s))


-----------------------------------------------------------------------------
(* Configuration.  config.json is read by ConfigLoader and is an input of  *)
(* the program; Configs are the configurations the model is run on.  The   *)
(* leaves are held in the model's scales (Q for dimensional leaves, U for  *)
(* dimensionless ones, whole numbers for counts and percentages).          *)

BaseConfig == [
    mission_requirements |-> [
        payload_weight_lb |-> 1200 * Q, design_range_nm |-> 200 * Q,
        cruise_speed_kts |-> 150 * Q, cruise_altitude_ft |-> 8000 * Q,
        service_ceiling_ft |-> 25000 * Q ],
    aerodynamics |-> [
        aspect_ratio |-> 10 * Q, oswald_efficiency |-> 800000,
        zero_lift_drag_coefficient |-> 25000,
        CLmax_clean |-> 1600000, CLmax_takeoff |-> 2000000,
        CLmax_landing |-> 2400000 ],
    dep_system |-> [
        enabled |-> TRUE, lift_augmentation_factor_max |-> 1800000,
        blown_span_fraction |-> 650000, number_of_highlift_motors |-> 12,
        motor_power_kW |-> 10500, use_for_wing_sizing |-> FALSE,
        highlift_motors |-> [
            number_of_motors |-> 12, power_per_motor_kW |-> 10500,
            weight_per_motor_lb |-> 15 * Q, efficiency |-> 950000 ],
        cruise_motors |-> [
            number_of_motors |-> 2, architecture |-> "pure_electric",
            specific_power_kW_kg |-> 5 * Q, efficiency |-> 950000 ],
        wiring_and_controls |-> [
            wiring_weight_factor |-> 100, controller_weight_per_kW |-> 150 ] ],
    performance_requirements |-> [
        stall_speed_requirement_kts |-> 61 * Q,
        balanced_field_length_ft |-> 1500 * Q,
        landing_field_length_ft |-> 1500 * Q,
        rate_of_climb_sea_level_fpm |-> 1500 * Q,
        rate_of_climb_ceiling_fpm |-> 100 * Q ],
    hybrid_system |-> [
        gas_turbine |-> [ specific_power_kW_kg |-> 4 * Q, efficiency |-> 300000,
                          BSFC_kg_kWh |-> 300000 ],
        electric_motor |-> [ specific_power_kW_kg |-> 5 * Q, efficiency |-> 950000 ],
        generator |-> [ specific_power_kW_kg |-> 5 * Q, efficiency |-> 950000 ],
        battery |-> [ specific_energy_Wh_kg |-> 250 * Q,
                      specific_power_kW_kg |-> 1 * Q,
                      SOC_margin_percent |-> 20,
                      depth_of_discharge_percent |-> 80 ] ],
    propulsion |-> [ number_of_engines |-> 2, propeller_efficiency |-> 800000 ],
    weight_iteration |-> [ initial_TOGW_guess_lb |-> 15000 * Q ] ]

\* BaseConfig without distributed propulsion and with a hybrid cruise set.
PlainConfig == [BaseConfig EXCEPT
    !.dep_system.enabled = FALSE,
    !.dep_system.cruise_motors.architecture = "parallel_hybrid"]

\* BaseConfig with a battery of zero specific energy: no battery is modelled.
NoBatteryConfig == [BaseConfig EXCEPT
    !.hybrid_system.battery.specific_energy_Wh_kg = 0]

\* PlainConfig with a depth of discharge of zero: no battery is modelled.
ZeroDODConfig == [PlainConfig EXCEPT
    !.hybrid_system.battery.depth_of_discharge_percent = 0]

\* BaseConfig with a battery of low specific power (0.1 kW/kg).
LowPowerConfig == [BaseConfig EXCEPT
    !.hybrid_system.battery.specific_power_kW_kg = Q \div 10]

\* PlainConfig with a battery of zero specific power: no power constraint.
ZeroPowerConfig == [PlainConfig EXCEPT
    !.hybrid_system.battery.specific_power_kW_kg = 0]

\* BaseConfig with high-lift motors rated at 5 kW each.
SmallMotorConfig == [BaseConfig EXCEPT !.dep_system.motor_power_kW = 5 * Q]

Configs == {BaseConfig, PlainConfig, NoBatteryConfig, ZeroDODConfig,
            LowPowerConfig, ZeroPowerConfig, SmallMotorConfig}

\* BaseConfig with other blown-lift figures (2.0 over half of the span).
HalfBlownConfig == [BaseConfig EXCEPT
    !.dep_system.lift_augmentation_factor_max = 2 * U,
    !.dep_system.blown_span_fraction = U \div 2]

\* PlainConfig with three engines.
ThreeEngineConfig == [PlainConfig EXCEPT !.propulsion.number_of_engines = 3]

\* TechnologySpec.from_config
FromConfig(cfg) == [
    GT_specific_power_kW_kg |-> cfg.hybrid_system.gas_turbine.specific_power_kW_kg,
    GT_efficiency |-> cfg.hybrid_system.gas_turbine.efficiency,
    GT_BSFC_kg_kWh |-> cfg.hybrid_system.gas_turbine.BSFC_kg_kWh,
    EM_specific_power_kW_kg |-> cfg.hybrid_system.electric_motor.specific_power_kW_kg,
    EM_efficiency |-> cfg.hybrid_system.electric_motor.efficiency,
    GEN_specific_power_kW_kg |-> cfg.hybrid_system.generator.specific_power_kW_kg,
    GEN_efficiency |-> cfg.hybrid_system.generator.efficiency,
    battery_specific_energy_Wh_kg |-> cfg.hybrid_system.battery.specific_energy_Wh_kg,
    battery_specific_power_kW_kg |-> cfg.hybrid_system.battery.specific_power_kW_kg,
    battery_SOC_margin |-> (cfg.hybrid_system.battery.SOC_margin_percent * U) \div 100,
    battery_DOD |-> (cfg.hybrid_system.battery.depth_of_discharge_percent * U) \div 100,
    prop_efficiency |-> cfg.propulsion.propeller_efficiency ]


-----------------------------------------------------------------------------
(* Powertrain classes.  A powertrain object is a record of its attributes; *)
(* the TechnologySpec it shares with the aircraft is passed as `tech`.     *)

\* x / specific_power * 2.20462 : a power (kW) to a component mass (lb).
MassLb(P_kW, specific_power_kW_kg) ==
    MulDiv(MulDiv(P_kW, Q, specific_power_kW_kg), 220462, 100000)

\* (P * BSFC) / 3600 : shaft power (kW) to a fuel rate (kg/s, scale U).
FuelRate(P_kW, tech) == MulDiv(P_kW, tech.GT_BSFC_kg_kWh, 3600 * Q)

\* PowertrainBase.__init__
PowertrainBase(class, name) == [
    class |-> class, name |-> name,
    m_GT_lb |-> 0, m_EM_lb |-> 0, m_GEN_lb |-> 0, m_battery_lb |-> 0,
    m_fuel_lb |-> 0, P_GT_kW |-> 0, P_EM_kW |-> 0, P_GEN_kW |-> 0 ]

\* PowertrainBase.get_total_propulsion_weight
Base_get_total_propulsion_weight(pt) == pt.m_GT_lb + pt.m_EM_lb + pt.m_GEN_lb

(* ConventionalPowertrain *)
ConventionalPowertrain == PowertrainBase("Conventional", "Conventional")

Conventional_size_components(pt, tech, P_shaft_kW, Hp) ==
    [pt EXCEPT !.P_GT_kW = P_shaft_kW,
               !.m_GT_lb = MassLb(P_shaft_kW, tech.GT_specific_power_kW_kg),
               !.m_EM_lb = 0,
               !.m_GEN_lb = 0]

\* A split for the conventional class that honours Hp as the parallel one does.
Conventional_split_by_Hp(pt, tech, P_required_kW, Hp) ==
    [P_GT_kW |-> MulDiv(P_required_kW, U - Hp, U),
     P_EM_kW |-> MulDiv(P_required_kW, Hp, U),
     fuel_rate_kg_s |-> FuelRate(MulDiv(P_required_kW, U - Hp, U), tech),
     battery_power_W |-> MulDiv(MulDiv(P_required_kW, Hp, U), U, tech.EM_efficiency)]

Conventional_get_power_split(pt, tech, P_required_kW, Hp) ==
    [P_GT_kW |-> P_required_kW,
     P_EM_kW |-> 0,
     fuel_rate_kg_s |-> FuelRate(P_required_kW, tech),
     battery_power_W |-> 0]

(* ParallelHybridPowertrain *)
ParallelHybridPowertrain == PowertrainBase("ParallelHybrid", "Parallel Hybrid")

\* A parallel sizing that ignores Hp: both machines rated for the full shaft power.
ParallelHybrid_size_ignoring_Hp(pt, tech, P_shaft_kW, Hp) ==
    [pt EXCEPT !.P_EM_kW = P_shaft_kW,
               !.P_GT_kW = P_shaft_kW,
               !.m_EM_lb = MassLb(P_shaft_kW, tech.EM_specific_power_kW_kg),
               !.m_GT_lb = MassLb(P_shaft_kW, tech.GT_specific_power_kW_kg),
               !.m_GEN_lb = 0]

ParallelHybrid_size_components(pt, tech, P_shaft_kW, Hp) ==
    LET P_EM_kW == MulDiv(P_shaft_kW, Hp, U)
        P_GT_kW == MulDiv(P_shaft_kW, U - Hp, U)
    IN  [pt EXCEPT !.P_EM_kW = P_EM_kW,
                   !.P_GT_kW = P_GT_kW,
                   !.m_EM_lb = MassLb(P_EM_kW, tech.EM_specific_power_kW_kg),
                   !.m_GT_lb = MassLb(P_GT_kW, tech.GT_specific_power_kW_kg),
                   !.m_GEN_lb = 0]

\* A parallel split in which the turbine always carries the full power and the
\* motor adds Hp of it on top.
ParallelHybrid_split_turbine_full(pt, tech, P_required_kW, Hp) ==
    [P_GT_kW |-> P_required_kW,
     P_EM_kW |-> MulDiv(P_required_kW, Hp, U),
     fuel_rate_kg_s |-> FuelRate(P_required_kW, tech),
     battery_power_W |-> MulDiv(MulDiv(P_required_kW, Hp, U), U, tech.EM_efficiency)]

ParallelHybrid_get_power_split(pt, tech, P_required_kW, Hp) ==
    LET P_GT_kW == MulDiv(P_required_kW, U - Hp, U)
        P_EM_kW == MulDiv(P_required_kW, Hp, U)
    IN  [P_GT_kW |-> P_GT_kW,
         P_EM_kW |-> P_EM_kW,
         fuel_rate_kg_s |-> FuelRate(P_GT_kW, tech),
         battery_power_W |-> MulDiv(P_EM_kW, U, tech.EM_efficiency)]

(* SerialHybridPowertrain *)
SerialHybridPowertrain == PowertrainBase("SerialHybrid", "Serial Hybrid")

SerialHybrid_size_components(pt, tech, P_shaft_kW, Hp) ==
    LET P_EM_kW == MulDiv(P_shaft_kW, U + Hp, U)
        P_electric_cruise_kW == MulDiv(P_shaft_kW, U, tech.EM_efficiency)
        P_GEN_kW == P_electric_cruise_kW
        P_GT_kW == MulDiv(P_GEN_kW, U, tech.GEN_efficiency)
    IN  [pt EXCEPT !.P_EM_kW = P_EM_kW,
                   !.P_GEN_kW = P_GEN_kW,
                   !.P_GT_kW = P_GT_kW,
                   !.m_EM_lb = MassLb(P_EM_kW, tech.EM_specific_power_kW_kg),
                   !.m_GEN_lb = MassLb(P_GEN_kW, tech.GEN_specific_power_kW_kg),
                   !.m_GT_lb = MassLb(P_GT_kW, tech.GT_specific_power_kW_kg)]

\* A serial split whose generator is not capped at its rating.
SerialHybrid_split_uncapped(pt, tech, P_required_kW, Hp) ==
    [P_GT_kW |-> MulDiv(MulDiv(P_required_kW, U, tech.EM_efficiency), U, tech.GEN_efficiency),
     P_EM_kW |-> P_required_kW,
     fuel_rate_kg_s |-> FuelRate(MulDiv(MulDiv(P_required_kW, U, tech.EM_efficiency),
                                        U, tech.GEN_efficiency), tech),
     battery_power_W |-> 0]

SerialHybrid_get_power_split(pt, tech, P_required_kW, Hp) ==
    LET P_EM_kW == P_required_kW
        P_electric_kW == MulDiv(P_EM_kW, U, tech.EM_efficiency)
        P_generator_kW == Min2(P_electric_kW, pt.P_GEN_kW)
        P_battery_kW == Max2(0, P_electric_kW - P_generator_kW)
        P_GT_kW == MulDiv(P_generator_kW, U, tech.GEN_efficiency)
    IN  [P_GT_kW |-> P_GT_kW,
         P_EM_kW |-> P_EM_kW,
         fuel_rate_kg_s |-> FuelRate(P_GT_kW, tech),
         battery_power_W |-> P_battery_kW]

(* FullyElectricPowertrain *)
FullyElectricPowertrain == PowertrainBase("FullyElectric", "Fully Electric")

FullyElectric_size_components(pt, tech, P_shaft_kW, Hp) ==
    [pt EXCEPT !.P_EM_kW = P_shaft_kW,
               !.m_EM_lb = MassLb(P_shaft_kW, tech.EM_specific_power_kW_kg),
               !.m_GT_lb = 0,
               !.m_GEN_lb = 0]

\* A split that feeds the demand from a turbine, as the conventional one does.
FullyElectric_split_from_fuel(pt, tech, P_required_kW, Hp) ==
    Conventional_get_power_split(pt, tech, P_required_kW, Hp)

FullyElectric_get_power_split(pt, tech, P_required_kW, Hp) ==
    [P_GT_kW |-> 0,
     P_EM_kW |-> P_required_kW,
     fuel_rate_kg_s |-> 0,
     battery_power_W |-> MulDiv(P_required_kW, U, tech.EM_efficiency)]


(* MultiEnginePowertrain *)
MultiEnginePowertrain(num_engines) ==
    [class |-> "MultiEngine", name |-> "Multi-Engine",
     m_GT_lb |-> 0, m_EM_lb |-> 0, m_GEN_lb |-> 0, m_battery_lb |-> 0,
     m_fuel_lb |-> 0, P_GT_kW |-> 0, P_EM_kW |-> 0, P_GEN_kW |-> 0,
     num_engines |-> num_engines,
     P_GT_per_engine_kW |-> 0, P_EM_per_engine_kW |-> 0,
     m_GT_per_engine_lb |-> 0, m_EM_per_engine_lb |-> 0]

MultiEngine_size_components(pt, tech, P_shaft_kW, Hp) ==
    LET P_per_engine_kW == MulDiv(P_shaft_kW, 1, pt.num_engines)
        P_GT_per_engine_kW == MulDiv(P_per_engine_kW, U - Hp, U)
        P_EM_per_engine_kW == MulDiv(P_per_engine_kW, Hp, U)
        m_GT_per_engine_lb == MassLb(P_GT_per_engine_kW, tech.GT_specific_power_kW_kg)
        m_EM_per_engine_lb == MassLb(P_EM_per_engine_kW, tech.EM_specific_power_kW_kg)
    IN  [pt EXCEPT !.P_GT_per_engine_kW = P_GT_per_engine_kW,
                   !.P_EM_per_engine_kW = P_EM_per_engine_kW,
                   !.P_GT_kW = P_GT_per_engine_kW * pt.num_engines,
                   !.P_EM_kW = P_EM_per_engine_kW * pt.num_engines,
                   !.m_GT_per_engine_lb = m_GT_per_engine_lb,
                   !.m_EM_per_engine_lb = m_EM_per_engine_lb,
                   !.m_GT_lb = m_GT_per_engine_lb * pt.num_engines,
                   !.m_EM_lb = m_EM_per_engine_lb * pt.num_engines,
                   !.m_GEN_lb = 0]

MultiEngine_get_power_split_oei(pt, tech, P_required_kW, Hp, oei_mode) ==
    LET num_operating_engines == IF oei_mode THEN 1 ELSE pt.num_engines
        P_per_engine_kW == IF oei_mode THEN P_required_kW
                           ELSE MulDiv(P_required_kW, 1, pt.num_engines)
        P_GT_per_engine_kW == MulDiv(P_per_engine_kW, U - Hp, U)
        P_EM_per_engine_kW == MulDiv(P_per_engine_kW, Hp, U)
        P_GT_total_kW == P_GT_per_engine_kW * num_operating_engines
        P_EM_total_kW == P_EM_per_engine_kW * num_operating_engines
    IN  [P_GT_kW |-> P_GT_total_kW,
         P_EM_kW |-> P_EM_total_kW,
         fuel_rate_kg_s |-> FuelRate(P_GT_total_kW, tech),
         battery_power_W |-> MulDiv(P_EM_total_kW, U, tech.EM_efficiency),
         num_operating_engines |-> num_operating_engines,
         P_per_engine_kW |-> P_per_engine_kW,
         P_GT_per_engine_kW |-> P_GT_per_engine_kW,
         P_EM_per_engine_kW |-> P_EM_per_engine_kW]

\* get_power_split(P_required_kW, Hp) with the default oei_mode = False
MultiEngine_get_power_split(pt, tech, P_required_kW, Hp) ==
    MultiEngine_get_power_split_oei(pt, tech, P_required_kW, Hp, FALSE)

(* DualMotorDEPPowertrain; `dep` is config['dep_system'] *)

\* MotorSet.total_power_kW
total_power_kW(ms) == ms.num_motors * ms.power_per_motor_kW
\* MotorSet.total_weight_lb
total_weight_lb(ms) == ms.num_motors * ms.weight_per_motor_lb

\* DualMotorDEPPowertrain.__init__
DualMotorDEPPowertrain(dep) ==
    LET highlift_motors == [
            name |-> "High-Lift Motors",
            num_motors |-> dep.highlift_motors.number_of_motors,
            power_per_motor_kW |-> dep.highlift_motors.power_per_motor_kW,
            weight_per_motor_lb |-> dep.highlift_motors.weight_per_motor_lb,
            efficiency |-> dep.highlift_motors.efficiency ]
    IN  [class |-> "DualMotorDEP",
         name |-> IF dep.cruise_motors.architecture = "parallel_hybrid"
                  THEN "Dual Motor DEP (Parallel Hybrid)"
                  ELSE "Dual Motor DEP (Pure Electric)",
         highlift_motors |-> highlift_motors,
         cruise_motors |-> None,
         num_cruise_motors |-> dep.cruise_motors.number_of_motors,
         cruise_architecture |-> dep.cruise_motors.architecture,
         m_battery_lb |-> 0,
         m_highlift_lb |-> total_weight_lb(highlift_motors),
         m_cruise_motors_lb |-> 0, m_wiring_lb |-> 0, m_controllers_lb |-> 0,
         P_GT_kW |-> 0, P_EM_kW |-> 0, P_GEN_kW |-> 0,
         m_GT_lb |-> 0, m_EM_lb |-> 0, m_GEN_lb |-> 0]

\* DualMotorDEPPowertrain.size_cruise_motors
size_cruise_motors(pt, tech, dep, P_cruise_kW, Hp) ==
    LET cr_config == dep.cruise_motors
        num_motors == cr_config.number_of_motors
        power_per_motor == MulDiv(P_cruise_kW, 1, num_motors)
        \* parallel hybrid branch
        P_EM_per_motor == MulDiv(power_per_motor, Hp, U)
        P_GT_per_motor == MulDiv(power_per_motor, U - Hp, U)
        m_EM_per_motor_lb == MassLb(P_EM_per_motor, cr_config.specific_power_kW_kg)
        m_GT_per_motor_lb == MassLb(P_GT_per_motor, tech.GT_specific_power_kW_kg)
        hybrid_motors == [
            name |-> "Cruise Motors (Parallel Hybrid)",
            num_motors |-> num_motors,
            power_per_motor_kW |-> power_per_motor,
            weight_per_motor_lb |-> m_GT_per_motor_lb + m_EM_per_motor_lb,
            efficiency |-> cr_config.efficiency ]
        \* pure electric branch
        electric_motors == [
            name |-> "Cruise Motors (Pure Electric)",
            num_motors |-> num_motors,
            power_per_motor_kW |-> power_per_motor,
            weight_per_motor_lb |-> MassLb(power_per_motor, cr_config.specific_power_kW_kg),
            efficiency |-> cr_config.efficiency ]
        total_kW == P_cruise_kW + total_power_kW(pt.highlift_motors)
        sized ==
            IF pt.cruise_architecture = "parallel_hybrid"
            THEN [pt EXCEPT !.cruise_motors = Some(hybrid_motors),
                            !.P_GT_kW = P_GT_per_motor * num_motors,
                            !.P_EM_kW = P_EM_per_motor * num_motors,
                            !.m_GT_lb = m_GT_per_motor_lb * num_motors,
                            !.m_EM_lb = m_EM_per_motor_lb * num_motors,
                            !.m_cruise_motors_lb = total_weight_lb(hybrid_motors)]
            ELSE [pt EXCEPT !.cruise_motors = Some(electric_motors),
                            !.m_cruise_motors_lb = total_weight_lb(electric_motors),
                            !.P_GT_kW = 0,
                            !.P_EM_kW = total_power_kW(electric_motors),
                            !.m_GT_lb = 0,
                            !.m_EM_lb = total_weight_lb(electric_motors)]
    IN  [sized EXCEPT
            !.m_wiring_lb = MulDiv(total_kW, dep.wiring_and_controls.wiring_weight_factor, Q),
            !.m_controllers_lb = MulDiv(total_kW, dep.wiring_and_controls.controller_weight_per_kW, Q)]

\* DualMotorDEPPowertrain.size_components
DualMotorDEP_size_components(pt, tech, dep, P_shaft_kW, Hp) ==
    size_cruise_motors(pt, tech, dep, P_shaft_kW, Hp)

\* DualMotorDEPPowertrain.get_power_split
DualMotorDEP_get_power_split(pt, tech, P_required_kW, Hp) ==
    IF pt.cruise_motors = None
    THEN [P_GT_kW |-> 0, P_EM_kW |-> 0, fuel_rate_kg_s |-> 0, battery_power_W |-> 0]
    ELSE LET P_cruise_shaft_kW == P_required_kW
             cr_efficiency == pt.cruise_motors[1].efficiency
             P_EM_shaft_kW == MulDiv(P_cruise_shaft_kW, Hp, U)
             P_GT_shaft_kW == MulDiv(P_cruise_shaft_kW, U - Hp, U)
         IN  IF pt.cruise_architecture = "parallel_hybrid"
             THEN [P_GT_kW |-> P_GT_shaft_kW,
                   P_EM_kW |-> P_EM_shaft_kW,
                   fuel_rate_kg_s |-> FuelRate(P_GT_shaft_kW, tech),
                   battery_power_W |-> MulDiv(P_EM_shaft_kW, U, cr_efficiency)]
             ELSE [P_GT_kW |-> 0,
                   P_EM_kW |-> P_cruise_shaft_kW,
                   fuel_rate_kg_s |-> 0,
                   battery_power_W |-> MulDiv(P_cruise_shaft_kW, U, cr_efficiency)]

\* DualMotorDEPPowertrain.size_battery
size_battery(pt, tech, mission_energy_Wh) ==
    LET energy_with_reserve == MulDiv(mission_energy_Wh, U, tech.battery_DOD)
        energy_kg == MulDiv(energy_with_reserve, U, tech.battery_specific_energy_Wh_kg)
    IN  [pt EXCEPT !.m_battery_lb = MulDiv(energy_kg, 220462, 100000)]

\* DualMotorDEPPowertrain.get_total_propulsion_weight
DualMotorDEP_get_total_propulsion_weight(pt) ==
    pt.m_battery_lb + pt.m_highlift_lb + pt.m_cruise_motors_lb
        + pt.m_wiring_lb + pt.m_controllers_lb

(* Dispatch on the class of the object (Python method lookup). *)

size_components(pt, tech, dep, P_shaft_kW, Hp) ==
    CASE pt.class = "Conventional" -> Conventional_size_components(pt, tech, P_shaft_kW, Hp)
      [] pt.class = "ParallelHybrid" -> ParallelHybrid_size_components(pt, tech, P_shaft_kW, Hp)
      [] pt.class = "SerialHybrid" -> SerialHybrid_size_components(pt, tech, P_shaft_kW, Hp)
      [] pt.class = "FullyElectric" -> FullyElectric_size_components(pt, tech, P_shaft_kW, Hp)
      [] pt.class = "MultiEngine" -> MultiEngine_size_components(pt, tech, P_shaft_kW, Hp)
      [] pt.class = "DualMotorDEP" -> DualMotorDEP_size_components(pt, tech, dep, P_shaft_kW, Hp)

get_power_split(pt, tech, P_required_kW, Hp) ==
    CASE pt.class = "Conventional" -> Conventional_get_power_split(pt, tech, P_required_kW, Hp)
      [] pt.class = "ParallelHybrid" -> ParallelHybrid_get_power_split(pt, tech, P_required_kW, Hp)
      [] pt.class = "SerialHybrid" -> SerialHybrid_get_power_split(pt, tech, P_required_kW, Hp)
      [] pt.class = "FullyElectric" -> FullyElectric_get_power_split(pt, tech, P_required_kW, Hp)
      [] pt.class = "MultiEngine" -> MultiEngine_get_power_split(pt, tech, P_required_kW, Hp)
      [] pt.class = "DualMotorDEP" -> DualMotorDEP_get_power_split(pt, tech, P_required_kW, Hp)

get_total_propulsion_weight(pt) ==
    IF pt.class = "DualMotorDEP"
    THEN DualMotorDEP_get_total_propulsion_weight(pt)
    ELSE Base_get_total_propulsion_weight(pt)


-----------------------------------------------------------------------------
(* atmosphere.py *)

\* x ** (n/2048) as a scale-U value, for 0 <= n < 2048: the product of the
\* repeated square roots x^(1/2), x^(1/4), ... selected by the binary digits of
\* n/2048.  `root` is x^(1/2^k) and `acc` the product so far.
RECURSIVE PowBits(_, _, _, _)
PowBits(root, n, k, acc) ==
    IF root <= 0 \/ acc <= 0 THEN 0
    ELSE IF k > 11 \/ n = 0 THEN acc
    ELSE PowBits(SqrtU(root), n % (2 ^ (11 - k)), k + 1,
                 IF n \div (2 ^ (11 - k)) = 1 THEN MulDiv(acc, root, U) ELSE acc)

\* x ** (n/2048), x in scale U, result in scale U.
PowU(x, n) == PowBits(SqrtU(x), n, 1, U)
\* x ** (n/2048), x in scale Q, result in scale U.
PowQ(x, n) == PowBits(SqrtQU(x), n, 1, U)

\* x*x and x**5 for a scale-U value.
Sq(x) == MulDiv(x, x, U)
Pow5(x) == MulDiv(Sq(Sq(x)), x, U)

\* R * T for air (R = 287.05 J/kg/K), T in scale Q: scale Q.
RT(T) == MulDiv(T, 28705, 100)

\* T = T0 + L * altitude_m in the troposphere (T0 = 288.15, L = -0.0065).
TroposphereT(altitude_m) == 288150 - MulDiv(altitude_m, 65, 10000)

\* P = P0 * (T / T0) ** (-g / (L * R)) with x = T / T0; the exponent 5.25588
\* is taken as 5 + 524/2048.
TroposphereP(x) == MulDiv(101325 * Q, MulDiv(Pow5(x), PowU(x, 524), U), U)

\* P = P_11 * exp(-g * (altitude_m - 11000) / (R * T_11)); exp(-z) is taken
\* as the limit (1 - z/n)^n at n = 16.
StratosphereP(altitude_m) ==
    MulDiv(22632100,
           Sq(Sq(Sq(Sq(Max2(0, U - MulDiv(MulDiv(altitude_m - 11000 * Q, 980665, 100000),
                                          U, RT(216650)) \div 16))))),
           U)

\* <<T, P, rho = P / (R * T), a = sqrt(gamma * R * T)>>, gamma = 1.4.
AtmosState(T, P) == <<T, P, MulDiv(P, U, RT(T)), SqrtQ(MulDiv(RT(T), 14, 10))>>

\* atmosisa(altitude_m) -> <<T [K], P [Pa], rho [kg/m3], a [m/s]>>; T, P and a
\* in scale Q, rho in scale U.
atmosisa(altitude_m) ==
    IF altitude_m <= 11000 * Q
    THEN AtmosState(TroposphereT(altitude_m),
                    TroposphereP(MulDiv(TroposphereT(altitude_m), U, 288150)))
    ELSE AtmosState(216650, StratosphereP(altitude_m))

\* rho_kg_m3 / 515.379 : density in slug/ft3 (scale RHO) at an altitude in ft.
RhoSlugAt(altitude_ft) ==
    MulDiv(atmosisa(MulDiv(altitude_ft, 3048, 10000))[3], 100000, 515379)


-----------------------------------------------------------------------------
(* aircraft.py: attributes read from the configuration in __init__, and    *)
(* the helpers of the sizing loop.                                         *)

\* self.K1 = 1 / (np.pi * self.AR * self.e)
K1(cfg) ==
    MulDiv(U, Q, MulDiv(MulDiv(cfg.aerodynamics.aspect_ratio,
                               cfg.aerodynamics.oswald_efficiency, U), 3141593, U))

\* 0.5 * rho * V**2 : dynamic pressure (psf), rho in slug/ft3, V in ft/s.
DynamicPressure(rho, V_fps) ==
    MulDiv(MulDiv(V_fps, V_fps, Q), rho, RHO \div 1000) \div 2000

\* np.sqrt(2 * W / (rho * S * CLmax)) : stall speed (ft/s).
StallSpeed(W_lb, rho, S_ft2, CLmax) ==
    SqrtQ(MulDiv(2 * MulDiv(W_lb, Q, S_ft2), RHO, MulDiv(rho, CLmax, U)))

\* x / (550 * prop_efficiency) * 0.7457 applied to thrust * speed: shaft kW.
ShaftHP(T_lb, V_fps, prop_efficiency) ==
    MulDiv(T_lb, V_fps, MulDiv(550 * Q, prop_efficiency, U))
HPtoKW(P_HP) == MulDiv(P_HP, 7457, 10000)

\* An augmentation that does not look at the blown-lift flag.
get_lift_augmentation_unflagged(cfg, blown_lift_active) ==
    IF ~cfg.dep_system.enabled
    THEN U
    ELSE U + MulDiv(cfg.dep_system.lift_augmentation_factor_max - U,
                    cfg.dep_system.blown_span_fraction, U)

\* HybridElectricAircraft.get_lift_augmentation_factor
get_lift_augmentation_factor(cfg, blown_lift_active) ==
    IF ~blown_lift_active \/ ~cfg.dep_system.enabled
    THEN U
    ELSE U + MulDiv(cfg.dep_system.lift_augmentation_factor_max - U,
                    cfg.dep_system.blown_span_fraction, U)

\* constraints.py: CLmax * blown_lift_augmentation when the blown lift is
\* used for sizing, CLmax otherwise.
CLmax_eff(CLmax, blown_lift_augmentation, use_blown_lift_sizing) ==
    IF use_blown_lift_sizing THEN MulDiv(CLmax, blown_lift_augmentation, U) ELSE CLmax

\* V_stall_fps = stall_speed_kts * 1.688
V_stall_req_fps(cfg) == MulDiv(cfg.performance_requirements.stall_speed_requirement_kts, 1688, 1000)

\* 1. stall speed: WS_stall_max = 0.5 * rho_SL * V_stall_fps**2 * CLmax_clean_eff
WS_stall_max(cfg, CLmax_clean_eff) ==
    MulDiv(DynamicPressure(237700, V_stall_req_fps(cfg)), CLmax_clean_eff, U)

\* 2. landing: WS_landing_max_TO = (landing_field_ft - 600) * CLmax_land_eff / 80 / 0.95
WS_landing_max_TO(cfg, CLmax_land_eff) ==
    MulDiv(MulDiv(cfg.performance_requirements.landing_field_length_ft - 600 * Q,
                  CLmax_land_eff, 80 * U), 100, 95)

\* 3. takeoff: TW_takeoff = WS_design / (sigma * CLmax_TO_eff * TOP), TOP = BFL / 37.5
TW_takeoff(cfg, WS_design, CLmax_TO_eff) ==
    MulDiv(WS_design, U,
           MulDiv(CLmax_TO_eff,
                  MulDiv(cfg.performance_requirements.balanced_field_length_ft, 10, 375), U))

\* CD = CD0 + K1 * CL**2
DragPolarCD(cfg, CL) ==
    cfg.aerodynamics.zero_lift_drag_coefficient + MulDiv(K1(cfg), Sq(CL), U)

\* 4. climb: (1.2**2 / CLmax_clean_eff) * CD_climb with CL_climb = CLmax_clean_eff / 1.2**2
climb_drag_term(cfg, CLmax_clean_eff) ==
    MulDiv(MulDiv(1440000, U, CLmax_clean_eff),
           DragPolarCD(cfg, MulDiv(CLmax_clean_eff, 100, 144)), U)

\* TW_climb_OEI = (N / (N - 1)) * (drag_term + 0.024)
TW_climb_OEI(cfg, CLmax_clean_eff) ==
    MulDiv(MulDiv(cfg.propulsion.number_of_engines, U, cfg.propulsion.number_of_engines - 1),
           climb_drag_term(cfg, CLmax_clean_eff) + 24000, U)

\* TW_climb_AEO = drag_term + 0.05
TW_climb_AEO(cfg, CLmax_clean_eff) == climb_drag_term(cfg, CLmax_clean_eff) + 50000

\* 5. service ceiling: V_climb_ceiling = sqrt(2 * 60 / (rho_ceiling * CLmax_clean_eff))
V_climb_ceiling(rho_ceiling_slug, CLmax_clean_eff) ==
    SqrtQ(MulDiv(2 * 60 * Q, RHO, MulDiv(rho_ceiling_slug, CLmax_clean_eff, U)))

\* TW_ceiling = (ROC_ceiling_fps / V_climb_ceiling + 2 * sqrt(CD0 * K1)) / 0.5
TW_ceiling(cfg, V_climb_ceiling_fps) ==
    MulDiv(MulDiv(MulDiv(cfg.performance_requirements.rate_of_climb_ceiling_fpm, 1, 60),
                  U, V_climb_ceiling_fps)
             + 2 * SqrtU(MulDiv(cfg.aerodynamics.zero_lift_drag_coefficient, K1(cfg), U)),
           100, 50)

\* 6. cruise: V_cruise_fps and q_cruise = 0.5 * rho_cruise * V_cruise_fps**2
V_cruise_fps(cfg) == MulDiv(cfg.mission_requirements.cruise_speed_kts, 1688, 1000)
q_cruise(cfg, rho_cruise_slug) == DynamicPressure(rho_cruise_slug, V_cruise_fps(cfg))

\* CL_cruise = TOGW / (q_cruise * S_wing), S_wing = TOGW / WS_design
CL_cruise(TOGW_lb, q_cruise_psf, WS_design) ==
    MulDiv(TOGW_lb, U, MulDiv(q_cruise_psf, MulDiv(TOGW_lb, Q, WS_design), Q))

\* L_D_cruise = CL_cruise / CD_cruise
L_D(cfg, CL) == MulDiv(CL, U, DragPolarCD(cfg, CL))

\* TW_cruise = (1 / 0.75) * (1 / L_D_cruise)
TW_cruise(cfg, TOGW_lb, q_cruise_psf, WS_design) ==
    MulDiv(MulDiv(U, 100, 75),
           MulDiv(U, U, L_D(cfg, CL_cruise(TOGW_lb, q_cruise_psf, WS_design))), U)

\* P = TW * TOGW * V / (550 * prop_efficiency)
PowerHP(cfg, TW, TOGW_lb, V_fps) ==
    ShaftHP(MulDiv(TW, TOGW_lb, U), V_fps, cfg.propulsion.propeller_efficiency)

\* P_takeoff_HP = 1.15 * T_takeoff * V_stall_fps / (550 * prop_efficiency)
P_takeoff_HP(cfg, TOGW_lb, WS_design, CLmax_TO_eff) ==
    ShaftHP(MulDiv(MulDiv(TW_takeoff(cfg, WS_design, CLmax_TO_eff), TOGW_lb, U), 115, 100),
            V_stall_req_fps(cfg), cfg.propulsion.propeller_efficiency)

\* P_ceiling_HP = T_ceiling * V_climb_ceiling / (550 * prop_efficiency)
P_ceiling_HP(cfg, TOGW_lb, V_climb_ceiling_fps) ==
    PowerHP(cfg, TW_ceiling(cfg, V_climb_ceiling_fps), TOGW_lb, V_climb_ceiling_fps)

\* The design point for a chosen wing loading:
\* P_shaft_HP = max(P_takeoff, P_climb_OEI, P_climb_AEO, P_ceiling, P_cruise).
DesignPoint(TOGW_lb, cfg, WS_design, CLmax_clean_eff, CLmax_TO_eff) ==
    <<WS_design,
      HPtoKW(SeqMax(<<
          P_takeoff_HP(cfg, TOGW_lb, WS_design, CLmax_TO_eff),
          PowerHP(cfg, TW_climb_OEI(cfg, CLmax_clean_eff), TOGW_lb,
                  MulDiv(V_stall_req_fps(cfg), 12, 10)),
          PowerHP(cfg, TW_climb_AEO(cfg, CLmax_clean_eff), TOGW_lb,
                  MulDiv(V_stall_req_fps(cfg), 12, 10)),
          P_ceiling_HP(cfg, TOGW_lb,
                       V_climb_ceiling(RhoSlugAt(cfg.mission_requirements.service_ceiling_ft),
                                       CLmax_clean_eff)),
          PowerHP(cfg, TW_cruise(cfg, TOGW_lb,
                                 q_cruise(cfg, RhoSlugAt(cfg.mission_requirements.cruise_altitude_ft)),
                                 WS_design),
                  TOGW_lb, V_cruise_fps(cfg)) >>)) >>

\* A constraint analysis that designs for the larger of the two wing loadings.
perform_constraint_analysis_widest(TOGW_lb, cfg, blown_lift_augmentation, use_blown_lift_sizing) ==
    DesignPoint(TOGW_lb, cfg,
        Max2(WS_stall_max(cfg, CLmax_eff(cfg.aerodynamics.CLmax_clean,
                                         blown_lift_augmentation, use_blown_lift_sizing)),
             WS_landing_max_TO(cfg, CLmax_eff(cfg.aerodynamics.CLmax_landing,
                                              blown_lift_augmentation, use_blown_lift_sizing))),
        CLmax_eff(cfg.aerodynamics.CLmax_clean, blown_lift_augmentation, use_blown_lift_sizing),
        CLmax_eff(cfg.aerodynamics.CLmax_takeoff, blown_lift_augmentation, use_blown_lift_sizing))

\* constraints.perform_constraint_analysis -> <<WS_design, P_shaft_kW>>,
\* WS_design = min(WS_stall_max, WS_landing_max_TO).
perform_constraint_analysis(TOGW_lb, cfg, blown_lift_augmentation, use_blown_lift_sizing) ==
    DesignPoint(TOGW_lb, cfg,
        Min2(WS_stall_max(cfg, CLmax_eff(cfg.aerodynamics.CLmax_clean,
                                         blown_lift_augmentation, use_blown_lift_sizing)),
             WS_landing_max_TO(cfg, CLmax_eff(cfg.aerodynamics.CLmax_landing,
                                              blown_lift_augmentation, use_blown_lift_sizing))),
        CLmax_eff(cfg.aerodynamics.CLmax_clean, blown_lift_augmentation, use_blown_lift_sizing),
        CLmax_eff(cfg.aerodynamics.CLmax_takeoff, blown_lift_augmentation, use_blown_lift_sizing))

\* HybridElectricAircraft.constraint_analysis
constraint_analysis(cfg, TOGW_lb) ==
    IF cfg.dep_system.enabled /\ cfg.dep_system.use_for_wing_sizing
    THEN perform_constraint_analysis(TOGW_lb, cfg, get_lift_augmentation_factor(cfg, TRUE), TRUE)
    ELSE perform_constraint_analysis(TOGW_lb, cfg, U, FALSE)

\* The weight breakdown built by calculate_OEW (a dict, in the order of the
\* literal).  N_ult = 3.75; the exponents 0.397, 0.360 and 0.712 are taken as
\* 813/2048, 737/2048 and 1458/2048.
WeightBreakdown(cfg, pt, TOGW_lb, S_wing_ft2) ==
    LET N_ult == 3750
        AR == cfg.aerodynamics.aspect_ratio
        AR_pow == MulDiv(AR, PowQ(AR, 1458), U)
        t1 == MulDiv(46740, PowQ(TOGW_lb, 813), U)
        t2 == MulDiv(t1, PowQ(S_wing_ft2, 737), U)
        t3 == MulDiv(t2, PowQ(N_ult, 813), U)
    IN  << <<"wing", MulDiv(t3, AR_pow, U)>>,
           <<"fuselage", 23 * SqrtQ(TOGW_lb)>>,
           <<"empennage", MulDiv(TOGW_lb, 4, 100)>>,
           <<"gear", MulDiv(TOGW_lb, 2, 100)>>,
           <<"propulsion", get_total_propulsion_weight(pt)>>,
           <<"systems", MulDiv(TOGW_lb, 2, 10)>> >>

\* HybridElectricAircraft.calculate_OEW : the value returned for the
\* breakdown it stored, sum(breakdown.values()).
calculate_OEW(breakdown) == SeqSum(DictValues(breakdown))

-----------------------------------------------------------------------------
(* mission.py.  A MissionSegment is a record; times are in seconds (scale  *)
(* Q), fuel in lb (scale Q), battery energy in whole Wh.                   *)

\* The configuration mission.py loads at import (load_config()).
DefaultConfig == BaseConfig

\* MissionSegment(name, altitude_start_ft, altitude_end_ft, Hp, blown_lift_active)
MissionSegment(name, altitude_start_ft, altitude_end_ft, Hp, blown_lift_active) ==
    [name |-> name, altitude_start_ft |-> altitude_start_ft,
     altitude_end_ft |-> altitude_end_ft, Hp |-> Hp,
     blown_lift_active |-> blown_lift_active,
     time_sec |-> 0, fuel_lb |-> 0, battery_Wh |-> 0, distance_nm |-> 0]

\* get_highlift_motor_power : self.dep_num_motors * config.get('dep_system',
\* 'motor_power_kW'), the second factor read from the module's configuration.
get_highlift_motor_power(cfg, blown_lift_active) ==
    IF ~blown_lift_active \/ ~cfg.dep_system.enabled
    THEN 0
    ELSE cfg.dep_system.number_of_highlift_motors * DefaultConfig.dep_system.motor_power_kW

\* The default blown_lift_profile of create_mission.
DefaultBlownLiftProfile ==
    << <<"takeoff", TRUE>>, <<"climb", TRUE>>, <<"cruise", FALSE>>,
       <<"descent", FALSE>>, <<"loiter", FALSE>>, <<"landing", TRUE>> >>

\* A mission whose segments come in the alphabetical order of their names.
create_mission_sorted(cfg, hybridization_profile) ==
    << MissionSegment("climb", 35 * Q, cfg.mission_requirements.cruise_altitude_ft,
                      DictGet(hybridization_profile, "climb", 0), TRUE),
       MissionSegment("cruise", cfg.mission_requirements.cruise_altitude_ft,
                      cfg.mission_requirements.cruise_altitude_ft,
                      DictGet(hybridization_profile, "cruise", 0), FALSE),
       MissionSegment("descent", cfg.mission_requirements.cruise_altitude_ft, 450 * Q,
                      DictGet(hybridization_profile, "descent", 0), FALSE),
       MissionSegment("landing", 450 * Q, 0,
                      DictGet(hybridization_profile, "landing", 0), TRUE),
       MissionSegment("loiter", 450 * Q, 450 * Q,
                      DictGet(hybridization_profile, "loiter", 0), FALSE),
       MissionSegment("takeoff", 0, 35 * Q,
                      DictGet(hybridization_profile, "takeoff", 0), TRUE) >>

\* A mission whose Hp values are brought into [0, 1].
create_mission_clamped(cfg, hybridization_profile) ==
    LET cruise_alt_ft == cfg.mission_requirements.cruise_altitude_ft
        hp(name) == Max2(0, Min2(U, DictGet(hybridization_profile, name, 0)))
        bl(name) == DictGet(DefaultBlownLiftProfile, name, FALSE)
    IN  << MissionSegment("takeoff", 0, 35 * Q, hp("takeoff"), bl("takeoff")),
           MissionSegment("climb", 35 * Q, cruise_alt_ft, hp("climb"), bl("climb")),
           MissionSegment("cruise", cruise_alt_ft, cruise_alt_ft, hp("cruise"), bl("cruise")),
           MissionSegment("descent", cruise_alt_ft, 450 * Q, hp("descent"), bl("descent")),
           MissionSegment("loiter", 450 * Q, 450 * Q, hp("loiter"), bl("loiter")),
           MissionSegment("landing", 450 * Q, 0, hp("landing"), bl("landing")) >>

\* HybridElectricAircraft.create_mission, blown_lift_profile = None
create_mission(cfg, hybridization_profile) ==
    LET blown_lift_profile == DefaultBlownLiftProfile
        cruise_alt_ft == cfg.mission_requirements.cruise_altitude_ft
        hp(name) == DictGet(hybridization_profile, name, 0)
        bl(name) == DictGet(blown_lift_profile, name, FALSE)
    IN  << MissionSegment("takeoff", 0, 35 * Q, hp("takeoff"), bl("takeoff")),
           MissionSegment("climb", 35 * Q, cruise_alt_ft, hp("climb"), bl("climb")),
           MissionSegment("cruise", cruise_alt_ft, cruise_alt_ft, hp("cruise"), bl("cruise")),
           MissionSegment("descent", cruise_alt_ft, 450 * Q, hp("descent"), bl("descent")),
           MissionSegment("loiter", 450 * Q, 450 * Q, hp("loiter"), bl("loiter")),
           MissionSegment("landing", 450 * Q, 0, hp("landing"), bl("landing")) >>

\* The closing lines of every segment simulation:
\*   fuel_lb = fuel_rate_kg_s * time_sec * 2.20462
\*   battery_Wh = battery_power_W * time_sec / 3600 + P_highlift_W * time_sec / 3600
Consumption(power_split, time_sec, P_highlift_kW) ==
    <<time_sec,
      MulDiv(MulDiv(power_split.fuel_rate_kg_s, time_sec, U), 220462, 100000),
      MulDiv(power_split.battery_power_W, time_sec, 3600 * Q)
          + MulDiv(P_highlift_kW, time_sec, 3600 * Q)>>

\* 0.5 * rho * V**2 * S (lb)
QS(rho, V_fps, S_ft2) == MulDiv(DynamicPressure(rho, V_fps), S_ft2, Q)

\* self.CD0 + self.K1 * CL_base**2
DragPolar(cfg, CL_base) ==
    cfg.aerodynamics.zero_lift_drag_coefficient + MulDiv(K1(cfg), MulDiv(CL_base, CL_base, U), U)

\* P_shaft_HP = x * V / (550 * prop_efficiency); P_shaft_kW = P_shaft_HP * 0.7457
ShaftKW(cfg, T_lb, V_fps) ==
    HPtoKW(ShaftHP(T_lb, V_fps, cfg.propulsion.propeller_efficiency))

simulate_cruise_segment(cfg, pt, segment, W_lb, S_ft2) ==
    LET rho_slug_ft3 == RhoSlugAt(segment.altitude_start_ft)
        V_fps == MulDiv(cfg.mission_requirements.cruise_speed_kts, 1688, 1000)
        qS == QS(rho_slug_ft3, V_fps, S_ft2)
        CL_base == MulDiv(W_lb, U, qS)
        CD == DragPolar(cfg, CL_base)
        D_lb == MulDiv(qS, CD, U)
        P_shaft_kW == ShaftKW(cfg, D_lb, V_fps)
        power_split == get_power_split(pt, FromConfig(cfg), P_shaft_kW, segment.Hp)
        time_sec == MulDiv(cfg.mission_requirements.design_range_nm, 6076120, V_fps)
    IN  Consumption(power_split, time_sec,
                    get_highlift_motor_power(cfg, segment.blown_lift_active))

simulate_climb_segment(cfg, pt, segment, W_lb, S_ft2) ==
    LET W_avg == MulDiv(W_lb, 99, 100)
        lift_aug_factor == get_lift_augmentation_factor(cfg, segment.blown_lift_active)
        CLmax_clean_effective == MulDiv(cfg.aerodynamics.CLmax_clean, lift_aug_factor, U)
        rho_sl == 237700
        V_stall_fps == StallSpeed(W_avg, rho_sl, S_ft2, CLmax_clean_effective)
        V_climb_fps == MulDiv(V_stall_fps, 13, 10)
        gamma == 50000
        ROC_fps == MulDiv(V_climb_fps, gamma, U)
        CL_climb_base == MulDiv(W_avg, U, QS(rho_sl, V_climb_fps, S_ft2))
        CL_climb == MulDiv(CL_climb_base, lift_aug_factor, U)
        CD_climb == DragPolar(cfg, CL_climb_base)
        T_lb == MulDiv(W_avg, MulDiv(CD_climb, U, CL_climb) + gamma, U)
        P_shaft_kW == ShaftKW(cfg, T_lb, V_climb_fps)
        power_split == get_power_split(pt, FromConfig(cfg), P_shaft_kW, segment.Hp)
        alt_change_ft == segment.altitude_end_ft - segment.altitude_start_ft
        time_sec == IF ROC_fps > 0 THEN MulDiv(alt_change_ft, Q, ROC_fps) ELSE 600 * Q
    IN  Consumption(power_split, time_sec,
                    get_highlift_motor_power(cfg, segment.blown_lift_active))

\* gamma = arctan(descent_rate_fps / V_fps) enters only through cos(gamma) and
\* sin(gamma), which are 1/sqrt(1 + t*t) and t/sqrt(1 + t*t) for t = tan(gamma).
simulate_descent_segment(cfg, pt, segment, W_lb, S_ft2) ==
    LET h_avg_ft == (segment.altitude_start_ft + segment.altitude_end_ft) \div 2
        rho_slug_ft3 == RhoSlugAt(h_avg_ft)
        V_descent_kts == MulDiv(cfg.mission_requirements.cruise_speed_kts, 9, 10)
        V_fps == MulDiv(V_descent_kts, 1688, 1000)
        descent_rate_fps == (600 * Q) \div 60
        tan_gamma == MulDiv(descent_rate_fps, U, V_fps)
        hyp == SqrtU(U + MulDiv(tan_gamma, tan_gamma, U))
        cos_gamma == MulDiv(U, U, hyp)
        sin_gamma == MulDiv(tan_gamma, U, hyp)
        W_effective == MulDiv(W_lb, cos_gamma, U)
        qS == QS(rho_slug_ft3, V_fps, S_ft2)
        CL_base == MulDiv(W_effective, U, qS)
        CD == DragPolar(cfg, CL_base)
        D_lb == MulDiv(qS, CD, U)
        T_required_lb == D_lb - MulDiv(W_lb, sin_gamma, U)
        idle_kW == MulDiv(pt.P_GT_kW, 7, 100)
        P_shaft_kW == IF T_required_lb < 0
                      THEN idle_kW
                      ELSE Max2(ShaftKW(cfg, T_required_lb, V_fps), idle_kW)
        power_split == get_power_split(pt, FromConfig(cfg), P_shaft_kW, segment.Hp)
        alt_change_ft == segment.altitude_start_ft - segment.altitude_end_ft
        time_sec == IF descent_rate_fps > 0
                    THEN MulDiv(alt_change_ft, Q, descent_rate_fps) ELSE 480 * Q
    IN  Consumption(power_split, time_sec,
                    get_highlift_motor_power(cfg, segment.blown_lift_active))

simulate_takeoff_segment(cfg, pt, segment, W_lb, S_ft2) ==
    LET rho_sl == 237700
        lift_aug_factor == get_lift_augmentation_factor(cfg, segment.blown_lift_active)
        CLmax_TO_effective == MulDiv(cfg.aerodynamics.CLmax_takeoff, lift_aug_factor, U)
        V_stall_TO_fps == StallSpeed(W_lb, rho_sl, S_ft2, CLmax_TO_effective)
        t_ground_sec == 30 * Q
        V_climb_fps == MulDiv(V_stall_TO_fps, 13, 10)
        ROC_fps == MulDiv(V_climb_fps, 8, 100)
        t_climb_sec == IF ROC_fps > 0 THEN MulDiv(35 * Q, Q, ROC_fps) ELSE 20 * Q
        time_sec == t_ground_sec + t_climb_sec
        P_takeoff_kW == IF pt.P_EM_kW > 0
                        THEN pt.P_GT_kW + pt.P_EM_kW
                        ELSE MulDiv(pt.P_GT_kW, 95, 100)
        power_split == get_power_split(pt, FromConfig(cfg), P_takeoff_kW, segment.Hp)
    IN  Consumption(power_split, time_sec,
                    get_highlift_motor_power(cfg, segment.blown_lift_active))

simulate_loiter_segment(cfg, pt, segment, W_lb, S_ft2) ==
    LET rho_slug_ft3 == RhoSlugAt(segment.altitude_start_ft)
        lift_aug_factor == get_lift_augmentation_factor(cfg, segment.blown_lift_active)
        CLmax_clean_effective == MulDiv(cfg.aerodynamics.CLmax_clean, lift_aug_factor, U)
        V_stall_fps == StallSpeed(W_lb, rho_slug_ft3, S_ft2, CLmax_clean_effective)
        V_loiter_fps == MulDiv(V_stall_fps, 13, 10)
        qS == QS(rho_slug_ft3, V_loiter_fps, S_ft2)
        CL_base == MulDiv(W_lb, U, qS)
        CD == DragPolar(cfg, CL_base)
        D_lb == MulDiv(qS, CD, U)
        P_shaft_kW == ShaftKW(cfg, D_lb, V_loiter_fps)
        power_split == get_power_split(pt, FromConfig(cfg), P_shaft_kW, segment.Hp)
        time_sec == 30 * 60 * Q
    IN  Consumption(power_split, time_sec,
                    get_highlift_motor_power(cfg, segment.blown_lift_active))

\* gamma_approach = 3 degrees: tan = 0.052408, sin = 0.052336.
simulate_landing_segment(cfg, pt, segment, W_lb, S_ft2) ==
    LET rho_slug_ft3 == RhoSlugAt(segment.altitude_start_ft)
        lift_aug_factor == get_lift_augmentation_factor(cfg, segment.blown_lift_active)
        CLmax_land_effective == MulDiv(cfg.aerodynamics.CLmax_landing, lift_aug_factor, U)
        V_stall_land_fps == StallSpeed(W_lb, rho_slug_ft3, S_ft2, CLmax_land_effective)
        V_approach_fps == MulDiv(V_stall_land_fps, 13, 10)
        descent_distance_ft == MulDiv(segment.altitude_start_ft, U, 52408)
        t_approach_sec == MulDiv(descent_distance_ft, Q, V_approach_fps)
        qS == QS(rho_slug_ft3, V_approach_fps, S_ft2)
        CL_base == MulDiv(W_lb, U, qS)
        CD == DragPolar(cfg, CL_base) + 20000
        D_lb == MulDiv(qS, CD, U)
        T_required_lb == D_lb - MulDiv(W_lb, 52336, U)
        P_shaft_kW == HPtoKW(Max2(0, ShaftHP(T_required_lb, V_approach_fps,
                                             cfg.propulsion.propeller_efficiency)))
        t_flare_rollout_sec == 30 * Q
        time_sec == t_approach_sec + t_flare_rollout_sec
        power_split == get_power_split(pt, FromConfig(cfg), P_shaft_kW, segment.Hp)
    IN  Consumption(power_split, time_sec,
                    get_highlift_motor_power(cfg, segment.blown_lift_active))

\* The dispatch on segment.name in the body of simulate_mission's loop.
SimulateSegmentByName(cfg, pt, segment, W_lb, S_ft2) ==
    CASE segment.name = "cruise" -> simulate_cruise_segment(cfg, pt, segment, W_lb, S_ft2)
      [] segment.name = "climb" -> simulate_climb_segment(cfg, pt, segment, W_lb, S_ft2)
      [] segment.name = "descent" -> simulate_descent_segment(cfg, pt, segment, W_lb, S_ft2)
      [] segment.name = "takeoff" -> simulate_takeoff_segment(cfg, pt, segment, W_lb, S_ft2)
      [] segment.name = "loiter" -> simulate_loiter_segment(cfg, pt, segment, W_lb, S_ft2)
      [] segment.name = "landing" -> simulate_landing_segment(cfg, pt, segment, W_lb, S_ft2)

-----------------------------------------------------------------------------
(* The aircraft object and the calls made on it.  A trace is a sequence of *)
(* set_powertrain calls followed by a sequence of size_aircraft calls; a   *)
(* size_aircraft call is a sequence of steps (loop head, one step per      *)
(* mission segment, loop tail, write-back and return).                     *)

\* size_aircraft runs explored in one trace, and the largest max_iterations
\* passed to size_aircraft.
MaxSizings == 2
MaxIter == 2

VARIABLES
    config,                 \* self.config
    powertrain,             \* self.powertrain : Optional
    Hp_design,              \* self.Hp_design
    hybridization_profile,  \* self.hybridization_profile : Optional dict
    TOGW_lb, OEW_lb, W_fuel_lb, W_battery_lb, S_wing_ft2, WS_psf,
    weight_breakdown,       \* self.weight_breakdown
    pc,                     \* position inside size_aircraft, "idle" between calls
    loc,                    \* the local variables of the running size_aircraft
    last_call,              \* the call being run or last run, with its arguments
    raised,                 \* the exception the last call ended with, or "none"
    result,                 \* Optional: the dict the last size_aircraft returned
    sim_log,                \* names of the segments simulated in this iteration
    prev,                   \* Optional: the size_aircraft call before this one
    nsizings                \* size_aircraft calls made so far

design_vars == <<TOGW_lb, OEW_lb, W_fuel_lb, W_battery_lb, S_wing_ft2, WS_psf>>
selection_vars == <<powertrain, Hp_design, hybridization_profile>>
vars == <<config, powertrain, Hp_design, hybridization_profile,
          TOGW_lb, OEW_lb, W_fuel_lb, W_battery_lb, S_wing_ft2, WS_psf,
          weight_breakdown, pc, loc, last_call, raised, result, sim_log, prev,
          nsizings>>

\* Architecture names passed to set_powertrain: the six keys of arch_map in
\* various cases, and a name that is no key.
ArchInputs == {
    <<"c","o","n","v","e","n","t","i","o","n","a","l">>,
    <<"P","a","r","a","l","l","e","l">>,
    <<"S","E","R","I","A","L">>,
    <<"e","l","e","c","t","r","i","c">>,
    <<"D","u","a","l","_","M","o","t","o","r","_","D","E","P">>,
    <<"m","u","l","t","i","_","e","n","g","i","n","e">>,
    <<"t","u","r","b","o">> }

\* Hybridization profiles passed to set_powertrain: a full one whose keys are
\* not in mission order, and an empty one.
ProfileFull ==
    << <<"landing", 500000>>, <<"cruise", 0>>, <<"takeoff", 400000>>,
       <<"loiter", 0>>, <<"climb", 300000>>, <<"descent", 0>> >>
SetProfiles == {None, Some(ProfileFull), Some(<<>>)}
HpInputs == {0, 300000}

\* HybridElectricAircraft.__init__
Init ==
    /\ config \in Configs
    /\ powertrain = None
    /\ Hp_design = 0
    /\ hybridization_profile = None
    /\ TOGW_lb = config.weight_iteration.initial_TOGW_guess_lb
    /\ OEW_lb = 0 /\ W_fuel_lb = 0 /\ W_battery_lb = 0
    /\ S_wing_ft2 = 0 /\ WS_psf = 0
    /\ weight_breakdown = <<>>
    /\ pc = "idle"
    /\ loc = None
    /\ last_call = [op |-> "__init__"]
    /\ raised = "none"
    /\ result = None
    /\ sim_log = <<>>
    /\ prev = None
    /\ nsizings = 0

\* arch_map[key](...) with the extra constructor arguments of lines 104-110.
NewPowertrain(cfg, key) ==
    IF key = <<"d","u","a","l","_","m","o","t","o","r","_","d","e","p">>
    THEN DualMotorDEPPowertrain(cfg.dep_system)
    ELSE IF key = <<"m","u","l","t","i","_","e","n","g","i","n","e">>
    THEN MultiEnginePowertrain(cfg.propulsion.number_of_engines)
    ELSE CASE ArchMapGet(key) = "Conventional" -> ConventionalPowertrain
           [] ArchMapGet(key) = "ParallelHybrid" -> ParallelHybridPowertrain
           [] ArchMapGet(key) = "SerialHybrid" -> SerialHybridPowertrain
           [] ArchMapGet(key) = "FullyElectric" -> FullyElectricPowertrain

\* HybridElectricAircraft.set_powertrain
SetPowertrain(architecture, Hp, profile) ==
    /\ pc = "idle"
    /\ nsizings = 0
    /\ last_call' = [op |-> "set_powertrain", architecture |-> architecture,
                     Hp_design |-> Hp, hybridization_profile |-> profile]
    /\ IF ~InArchMap(Lower(architecture))
       THEN /\ raised' = "ValueError"
            /\ UNCHANGED selection_vars
       ELSE IF ArchMapGet(Lower(architecture)) = "KeyError"
       THEN /\ raised' = "KeyError"
            /\ UNCHANGED selection_vars
       ELSE /\ powertrain' = Some(NewPowertrain(config, Lower(architecture)))
            /\ IF profile # None
               THEN /\ hybridization_profile' = profile
                    /\ IF Len(profile[1]) = 0
                       THEN \* max() of an empty sequence
                            /\ raised' = "ValueError"
                            /\ UNCHANGED Hp_design
                       ELSE /\ Hp_design' = SeqMax(DictValues(profile[1]))
                            /\ raised' = "none"
               ELSE /\ Hp_design' = Hp
                    /\ hybridization_profile' = None
                    /\ raised' = "none"
    /\ UNCHANGED <<config, design_vars, weight_breakdown, pc, loc, result,
                   sim_log, prev, nsizings>>

\* Call arguments of size_aircraft: <<max_iterations, tolerance,
\* hybridization_profile>>.  ProfileArg has a key that is no segment, a value
\* above 1 and misses four segments.
ProfileArg == << <<"cruise", 200000>>, <<"taxi", 900000>>, <<"climb", 1200000>> >>
TolTight == U \div 100
TolLoose == U \div 4
SizingInputs ==
    {<<0, TolTight, None>>, <<MaxIter, TolTight, None>>, <<MaxIter, TolLoose, None>>,
     <<MaxIter, TolLoose, Some(ProfileArg)>>}

\* A first guess taken from the TOGW stored on the aircraft.
StoredGuess(self_TOGW_lb) == self_TOGW_lb

\* TOGW_guess_lb = 15000
InitialGuess(self_TOGW_lb) == 15000 * Q

\* A resolution that prefers the stored profile to the one passed in.
ResolveProfileStoredFirst(profile_arg, self_profile, self_Hp_design) ==
    IF self_profile # None THEN self_profile[1]
    ELSE IF profile_arg # None THEN profile_arg[1]
    ELSE << <<"takeoff", self_Hp_design>>, <<"climb", self_Hp_design>>,
            <<"cruise", 0>>, <<"descent", 0>>, <<"loiter", 0>>,
            <<"landing", self_Hp_design>> >>

\* The profile size_aircraft works with (lines 257-272).
ResolveProfile(profile_arg, self_profile, self_Hp_design) ==
    IF profile_arg # None THEN profile_arg[1]
    ELSE IF self_profile # None THEN self_profile[1]
    ELSE << <<"takeoff", self_Hp_design>>, <<"climb", self_Hp_design>>,
            <<"cruise", 0>>, <<"descent", 0>>, <<"loiter", 0>>,
            <<"landing", self_Hp_design>> >>

\* The local variables of size_aircraft on entry to the loop; `bound` tells
\* whether the names assigned in the loop body are bound yet.
EntryLocals(max_iterations, tolerance, profile) ==
    [max_iterations |-> max_iterations, tolerance |-> tolerance,
     hybridization_profile |-> profile,
     TOGW_guess_lb |-> InitialGuess(TOGW_lb), iteration |-> 0, bound |-> FALSE,
     WS_psf |-> 0, P_shaft_kW |-> 0, S_wing_ft2 |-> 0, OEW_lb |-> 0,
     segments |-> <<>>, seg_idx |-> 0, W_current_lb |-> 0,
     total_fuel_lb |-> 0, total_battery_Wh |-> 0, total_time_sec |-> 0,
     W_fuel_lb |-> 0, W_battery_lb |-> 0, W_battery_Wh |-> 0,
     max_battery_power_kW |-> 0, max_power_segment |-> "",
     c_rate_actual |-> 0, c_rate_max |-> 0, sizing_constraint |-> "",
     TOGW_new_lb |-> 0, error |-> 0, iterations_run |-> 0]

\* A None test that never fires (the check of line 253 left out).
NeverMissing(self_powertrain) == FALSE

\* `self.powertrain is None` (line 253)
PowertrainMissing(self_powertrain) == self_powertrain = None

\* size_aircraft, up to the head of the loop
SizeAircraft(max_iterations, tolerance, profile_arg) ==
    /\ pc = "idle"
    /\ nsizings < MaxSizings
    /\ last_call' = [op |-> "size_aircraft", max_iterations |-> max_iterations,
                     tolerance |-> tolerance, hybridization_profile |-> profile_arg]
    /\ result' = None
    /\ IF PowertrainMissing(powertrain)
       THEN /\ raised' = "ValueError"
            /\ UNCHANGED <<pc, loc, prev, nsizings, sim_log>>
       ELSE /\ raised' = "none"
            /\ loc' = Some(EntryLocals(max_iterations, tolerance,
                          ResolveProfile(profile_arg, hybridization_profile, Hp_design)))
            /\ pc' = IF max_iterations > 0 THEN "loop_head" ELSE "finish"
            /\ prev' = IF last_call.op = "size_aircraft"
                       THEN Some([call |-> last_call, raised |-> raised, result |-> result])
                       ELSE None
            /\ nsizings' = nsizings + 1
            /\ sim_log' = <<>>
    /\ UNCHANGED <<config, selection_vars, design_vars, weight_breakdown>>

\* Lines 288-290 with the values of lines 284-287 at hand: the empty weight
\* of the sized powertrain and the mission for this iteration.
LoopHeadStore(l, ca, S, pt, breakdown) ==
    /\ powertrain' = Some(pt)
    /\ weight_breakdown' = breakdown
    /\ loc' = Some([l EXCEPT
           !.bound = TRUE, !.iterations_run = @ + 1,
           !.WS_psf = ca[1], !.P_shaft_kW = ca[2], !.S_wing_ft2 = S,
           !.OEW_lb = calculate_OEW(breakdown),
           !.segments = create_mission(config, l.hybridization_profile),
           !.seg_idx = 1, !.W_current_lb = l.TOGW_guess_lb,
           !.total_fuel_lb = 0, !.total_battery_Wh = 0, !.total_time_sec = 0])

\* A loop head that leaves line 287 out: the powertrain stays as it was.
LoopHeadWeighUnsized(l, ca, S, pt) ==
    LoopHeadStore(l, ca, S, powertrain[1],
                  WeightBreakdown(config, powertrain[1], l.TOGW_guess_lb, S))

\* Line 288: OEW_lb = self.calculate_OEW(TOGW_guess_lb, S_wing_ft2)
LoopHeadWeigh(l, ca, S, pt) ==
    LoopHeadStore(l, ca, S, pt, WeightBreakdown(config, pt, l.TOGW_guess_lb, S))

\* Lines 285-287: S_wing_ft2 = TOGW_guess_lb / WS_psf and
\* self.powertrain.size_components(P_shaft_kW, self.Hp_design)
LoopHeadSize(l, ca) ==
    LoopHeadWeigh(l, ca, MulDiv(l.TOGW_guess_lb, Q, ca[1]),
                  size_components(powertrain[1], FromConfig(config), config.dep_system,
                                  ca[2], Hp_design))

\* Loop head (lines 284-290): constraint analysis, wing area, component
\* sizing, empty weight and the mission for this iteration.
LoopHead ==
    /\ pc = "loop_head"
    /\ LoopHeadSize(loc[1], constraint_analysis(config, loc[1].TOGW_guess_lb))
    /\ sim_log' = <<>>
    /\ pc' = "segment"
    /\ UNCHANGED <<config, Hp_design, hybridization_profile, design_vars,
                   last_call, raised, result, prev, nsizings>>

\* A store that also takes the mass equivalent of the battery energy drawn
\* (at 250 Wh/kg) off the running weight.
SegmentStoreDrainingBattery(l, segment, r) ==
    /\ loc' = Some([l EXCEPT
           !.W_current_lb = @ - r[2] - MulDiv(r[3], 220462, 25000),
           !.segments[l.seg_idx] =
               [segment EXCEPT !.time_sec = r[1], !.fuel_lb = r[2], !.battery_Wh = r[3]],
           !.total_fuel_lb = @ + r[2],
           !.total_battery_Wh = @ + r[3],
           !.total_time_sec = @ + r[1],
           !.seg_idx = @ + 1])
    /\ sim_log' = Append(sim_log, segment.name)
    /\ pc' = IF l.seg_idx = Len(l.segments) THEN "close" ELSE "segment"

\* Lines 411-422 of simulate_mission: the segment keeps its results r =
\* <<time_sec, fuel_lb, battery_Wh>>, the weight drops by the fuel burnt and
\* the totals grow.
SegmentStore(l, segment, r) ==
    /\ loc' = Some([l EXCEPT
           !.W_current_lb = @ - r[2],
           !.segments[l.seg_idx] =
               [segment EXCEPT
                   !.time_sec = r[1], !.fuel_lb = r[2], !.battery_Wh = r[3],
                   !.distance_nm = IF segment.name = "cruise"
                                   THEN config.mission_requirements.design_range_nm
                                   ELSE @],
           !.total_fuel_lb = @ + r[2],
           !.total_battery_Wh = @ + r[3],
           !.total_time_sec = @ + r[1],
           !.seg_idx = @ + 1])
    /\ sim_log' = Append(sim_log, segment.name)
    /\ pc' = IF l.seg_idx = Len(l.segments) THEN "close" ELSE "segment"

\* A turn of the loop that sizes the powertrain again, for the Hp of the
\* segment at hand.
SimulateSegmentResizing ==
    /\ pc = "segment"
    /\ SegmentStore(loc[1], loc[1].segments[loc[1].seg_idx],
                    SimulateSegmentByName(config, powertrain[1],
                                          loc[1].segments[loc[1].seg_idx],
                                          loc[1].W_current_lb, loc[1].S_wing_ft2))
    /\ powertrain' = Some(size_components(powertrain[1], FromConfig(config),
                                          config.dep_system, loc[1].P_shaft_kW,
                                          loc[1].segments[loc[1].seg_idx].Hp))
    /\ UNCHANGED <<config, Hp_design, hybridization_profile, design_vars,
                   weight_breakdown, last_call, raised, result, prev, nsizings>>

\* One turn of the loop of simulate_mission (lines 393-422).
SimulateSegment ==
    /\ pc = "segment"
    /\ SegmentStore(loc[1], loc[1].segments[loc[1].seg_idx],
                    SimulateSegmentByName(config, powertrain[1],
                                          loc[1].segments[loc[1].seg_idx],
                                          loc[1].W_current_lb, loc[1].S_wing_ft2))
    /\ UNCHANGED <<config, selection_vars, design_vars, weight_breakdown,
                   last_call, raised, result, prev, nsizings>>

\* The loop of lines 309-315 over the first k segments:
\* <<max_battery_power_W, max_power_segment>>.
RECURSIVE PeakBatteryPower(_, _)
PeakBatteryPower(segments, k) ==
    IF k = 0 THEN <<0, "">>
    ELSE LET before == PeakBatteryPower(segments, k - 1)
             seg == segments[k]
             seg_power_W == MulDiv(seg.battery_Wh, 3600 * Q, seg.time_sec)
         IN  IF seg.time_sec > 0 /\ seg_power_W > before[1]
             THEN <<seg_power_W, seg.name>>
             ELSE before

\* A guard that lets a zero specific energy or a zero DOD through.
BatteryModelledLoose(tech) ==
    tech.battery_specific_energy_Wh_kg >= 0 /\ tech.battery_DOD >= 0

\* Line 299: a battery is sized only for a positive specific energy and DOD.
BatteryModelled(tech) ==
    tech.battery_specific_energy_Wh_kg > 0 /\ tech.battery_DOD > 0

\* A battery mass that looks at the energy requirement only.
BatteryMassEnergyOnly(m_battery_energy_kg, m_battery_power_kg) ==
    m_battery_energy_kg

\* Line 325: m_battery_kg = max(m_battery_energy_kg, m_battery_power_kg)
BatteryMassKg(m_battery_energy_kg, m_battery_power_kg) ==
    Max2(m_battery_energy_kg, m_battery_power_kg)

\* Battery sizing with the C-rate constraint (lines 299-343).  Masses in kg
\* and lb (scale Q), energies in Wh, powers in W, C-rates in scale U.
BatterySizing(tech, total_battery_Wh, segments) ==
    IF BatteryModelled(tech)
    THEN LET W_battery_Wh == MulDiv(total_battery_Wh, U, tech.battery_DOD)
             m_battery_energy_kg == MulDiv(W_battery_Wh, U, tech.battery_specific_energy_Wh_kg)
             peak == PeakBatteryPower(segments, Len(segments))
             max_battery_power_kW == peak[1]
             m_battery_power_kg ==
                 IF tech.battery_specific_power_kW_kg > 0
                 THEN MulDiv(max_battery_power_kW, Q, tech.battery_specific_power_kW_kg)
                 ELSE 0
             m_battery_kg == BatteryMassKg(m_battery_energy_kg, m_battery_power_kg)
         IN  [W_battery_lb |-> MulDiv(m_battery_kg, 220462, 100000),
              W_battery_Wh |-> W_battery_Wh,
              max_battery_power_kW |-> max_battery_power_kW,
              max_power_segment |-> peak[2],
              c_rate_actual |-> IF W_battery_Wh > 0
                                THEN MulDiv(max_battery_power_kW, U, W_battery_Wh)
                                ELSE 0,
              c_rate_max |-> MulDiv(tech.battery_specific_power_kW_kg, Q * U,
                                    tech.battery_specific_energy_Wh_kg),
              sizing_constraint |-> IF m_battery_power_kg > m_battery_energy_kg
                                    THEN "POWER" ELSE "energy"]
    ELSE [W_battery_lb |-> 0, W_battery_Wh |-> 0, max_battery_power_kW |-> 0,
          max_power_segment |-> "N/A", c_rate_actual |-> 0, c_rate_max |-> 0,
          sizing_constraint |-> "N/A"]

\* error = abs(TOGW_new_lb - TOGW_guess_lb) / TOGW_guess_lb
RelativeError(TOGW_new_lb, TOGW_guess_lb) ==
    MulDiv(Abs(TOGW_new_lb - TOGW_guess_lb), U, TOGW_guess_lb)

\* `error < tolerance`
Converged(error, tolerance) == error < tolerance

\* An update that takes the new TOGW whole, with no under-relaxation.
FullUpdate(TOGW_guess_lb, TOGW_new_lb) == TOGW_new_lb

\* TOGW_guess_lb = 0.7 * TOGW_guess_lb + 0.3 * TOGW_new_lb
Relax(TOGW_guess_lb, TOGW_new_lb) == (7 * TOGW_guess_lb + 3 * TOGW_new_lb) \div 10

\* A new TOGW that leaves the battery out.
NewTOGWWithoutBattery(cfg, OEW, W_fuel, W_battery) ==
    OEW + cfg.mission_requirements.payload_weight_lb + W_fuel

\* TOGW_new_lb = OEW_lb + self.W_payload_lb + W_fuel_lb + W_battery_lb
NewTOGW(cfg, OEW, W_fuel, W_battery) ==
    OEW + cfg.mission_requirements.payload_weight_lb + W_fuel + W_battery

\* The locals after lines 293-346: reserve fuel, battery, new TOGW, error.
ClosedLocals(cfg, l, W_fuel, bat) ==
    [l EXCEPT
        !.W_fuel_lb = W_fuel,
        !.W_battery_lb = bat.W_battery_lb,
        !.W_battery_Wh = bat.W_battery_Wh,
        !.max_battery_power_kW = bat.max_battery_power_kW,
        !.max_power_segment = bat.max_power_segment,
        !.c_rate_actual = bat.c_rate_actual,
        !.c_rate_max = bat.c_rate_max,
        !.sizing_constraint = bat.sizing_constraint,
        !.TOGW_new_lb = NewTOGW(cfg, l.OEW_lb, W_fuel, bat.W_battery_lb),
        !.error = RelativeError(NewTOGW(cfg, l.OEW_lb, W_fuel, bat.W_battery_lb),
                                l.TOGW_guess_lb)]

\* Lines 353-357 and the end of the range: the break, or the relaxed update
\* followed by the next iteration or the end of the loop.
ConvergenceTest(closed) ==
    IF Converged(closed.error, closed.tolerance)
    THEN /\ loc' = Some(closed)
         /\ pc' = "finish"
    ELSE /\ loc' = Some([closed EXCEPT
                !.TOGW_guess_lb = Relax(closed.TOGW_guess_lb, closed.TOGW_new_lb),
                !.iteration = @ + 1])
         /\ pc' = IF closed.iteration + 1 < closed.max_iterations
                  THEN "loop_head" ELSE "finish"

\* Loop tail (lines 293-357): reserve fuel, battery, new TOGW, convergence
\* test, and either the break, the relaxed update or the end of the range.
CloseIteration ==
    /\ pc = "close"
    /\ ConvergenceTest(ClosedLocals(config, loc[1],
                                    MulDiv(loc[1].total_fuel_lb, 106, 100),
                                    BatterySizing(FromConfig(config),
                                                  loc[1].total_battery_Wh,
                                                  loc[1].segments)))
    /\ UNCHANGED <<config, selection_vars, design_vars, weight_breakdown,
                   last_call, raised, result, sim_log, prev, nsizings>>

\* The results dict (lines 368-396), from the locals and self.WS_psf.
\* Fractions in scale U, PREE and mission_time_min in scale Q.
Results(cfg, l, self_WS_psf, E_total_Wh) ==
    LET W_payload_lb == cfg.mission_requirements.payload_weight_lb
    IN  [TOGW_lb |-> l.TOGW_new_lb,
         OEW_lb |-> l.OEW_lb,
         W_fuel_lb |-> l.W_fuel_lb,
         W_battery_lb |-> l.W_battery_lb,
         W_payload_lb |-> W_payload_lb,
         S_wing_ft2 |-> l.S_wing_ft2,
         WS_psf |-> self_WS_psf,
         fuel_fraction |-> MulDiv(l.W_fuel_lb, U, l.TOGW_new_lb),
         battery_fraction |-> MulDiv(l.W_battery_lb, U, l.TOGW_new_lb),
         payload_fraction |-> MulDiv(W_payload_lb, U, l.TOGW_new_lb),
         PREE |-> MulDiv(MulDiv(W_payload_lb, 444822, 100000),
                         MulDiv(cfg.mission_requirements.design_range_nm, 1852, Q),
                         E_total_Wh),
         mission_time_min |-> l.total_time_sec \div 60,
         converged |-> Converged(l.error, l.tolerance),
         battery_c_rate |-> l.c_rate_actual,
         battery_c_rate_max |-> l.c_rate_max,
         battery_sizing_constraint |-> l.sizing_constraint,
         battery_peak_power_kW |-> l.max_battery_power_kW,
         battery_peak_segment |-> l.max_power_segment]

\* E_fuel_Wh + E_battery_Wh (lines 372-374)
TotalEnergyWh(l) == MulDiv(l.W_fuel_lb, 5417904, U) + l.W_battery_Wh

\* After the loop (lines 361-424): write-back to the aircraft, the results
\* dict and the return.  With no iteration run the names of the loop body are
\* unbound at line 361; a zero divisor raises after the write-back it follows.
Finish ==
    /\ pc = "finish"
    /\ pc' = "idle"
    /\ LET l == loc[1]
       IN  IF ~l.bound
           THEN /\ raised' = "UnboundLocalError"
                /\ result' = None
                /\ UNCHANGED design_vars
           ELSE /\ TOGW_lb' = l.TOGW_new_lb
                /\ OEW_lb' = l.OEW_lb
                /\ W_fuel_lb' = l.W_fuel_lb
                /\ W_battery_lb' = l.W_battery_lb
                /\ S_wing_ft2' = l.S_wing_ft2
                /\ IF l.S_wing_ft2 = 0
                   THEN /\ raised' = "ZeroDivisionError"
                        /\ result' = None
                        /\ UNCHANGED WS_psf
                   ELSE /\ WS_psf' = MulDiv(l.TOGW_new_lb, Q, l.S_wing_ft2)
                        /\ IF l.TOGW_new_lb = 0 \/ TotalEnergyWh(l) = 0
                           THEN /\ raised' = "ZeroDivisionError"
                                /\ result' = None
                           ELSE /\ raised' = "none"
                                /\ result' = Some(Results(config, l, WS_psf',
                                                          TotalEnergyWh(l)))
    /\ UNCHANGED <<config, selection_vars, weight_breakdown, loc, last_call,
                   sim_log, prev, nsizings>>

Next ==
    \/ \E architecture \in ArchInputs, Hp \in HpInputs, profile \in SetProfiles :
           SetPowertrain(architecture, Hp, profile)
    \/ \E a \in SizingInputs : SizeAircraft(a[1], a[2], a[3])
    \/ LoopHead
    \/ SimulateSegment
    \/ CloseIteration
    \/ Finish

Spec == Init /\ [][Next]_vars

-----------------------------------------------------------------------------
(* Single methods called directly, in any order: size_components,          *)
(* get_power_split, size_battery and get_total_propulsion_weight on a      *)
(* powertrain object of each class, and get_lift_augmentation_factor on    *)
(* the aircraft.  `prev` keeps the call before the last one with the       *)
(* object it was made on and what it returned.                             *)

\* Powers (kW) and hybridization ratios passed to the two methods.
PowerInputs == {0, 200 * Q, 1000 * Q}
RatioInputs == {0, 300000, U}
\* Mission energies (Wh) passed to size_battery.
EnergyInputs == {0, 50 * Q}
\* The configurations the single calls are made under.
ConfigsPT == {BaseConfig, PlainConfig, NoBatteryConfig, HalfBlownConfig,
              ThreeEngineConfig}

\* An object of one of the six classes of arch_map, as its __init__ leaves it.
InitPT ==
    /\ config \in ConfigsPT
    /\ powertrain \in {Some(NewPowertrain(config, ArchKeys[i])) : i \in 1..Len(ArchKeys)}
    /\ Hp_design = 0
    /\ hybridization_profile = None
    /\ TOGW_lb = config.weight_iteration.initial_TOGW_guess_lb
    /\ OEW_lb = 0 /\ W_fuel_lb = 0 /\ W_battery_lb = 0
    /\ S_wing_ft2 = 0 /\ WS_psf = 0
    /\ weight_breakdown = <<>>
    /\ pc = "idle"
    /\ loc = None
    /\ last_call = [op |-> "__init__"]
    /\ raised = "none"
    /\ result = None
    /\ sim_log = <<>>
    /\ prev = None
    /\ nsizings = 0

\* What `prev` keeps of the state a call is made in.
Snapshot == Some([call |-> last_call, powertrain |-> powertrain[1], result |-> result])

\* powertrain.size_components(P_shaft_kW, Hp)
CallSizeComponents(P_shaft_kW, Hp) ==
    /\ powertrain' = Some(size_components(powertrain[1], FromConfig(config),
                                          config.dep_system, P_shaft_kW, Hp))
    /\ last_call' = [op |-> "size_components", P_kW |-> P_shaft_kW, Hp |-> Hp]
    /\ result' = None
    /\ raised' = "none"
    /\ prev' = Snapshot
    /\ UNCHANGED <<config, Hp_design, hybridization_profile, design_vars,
                   weight_breakdown, pc, loc, sim_log, nsizings>>

\* powertrain.get_power_split(P_required_kW, Hp)
CallGetPowerSplit(P_required_kW, Hp) ==
    /\ result' = Some(get_power_split(powertrain[1], FromConfig(config), P_required_kW, Hp))
    /\ last_call' = [op |-> "get_power_split", P_kW |-> P_required_kW, Hp |-> Hp,
                     oei_mode |-> FALSE]
    /\ raised' = "none"
    /\ prev' = Snapshot
    /\ UNCHANGED <<config, powertrain, Hp_design, hybridization_profile, design_vars,
                   weight_breakdown, pc, loc, sim_log, nsizings>>

\* powertrain.get_power_split(P_required_kW, Hp, oei_mode=True), a parameter
\* of MultiEnginePowertrain.get_power_split only.
CallGetPowerSplitOEI(P_required_kW, Hp) ==
    /\ powertrain[1].class = "MultiEngine"
    /\ result' = Some(MultiEngine_get_power_split_oei(powertrain[1], FromConfig(config),
                                                       P_required_kW, Hp, TRUE))
    /\ last_call' = [op |-> "get_power_split", P_kW |-> P_required_kW, Hp |-> Hp,
                     oei_mode |-> TRUE]
    /\ raised' = "none"
    /\ prev' = Snapshot
    /\ UNCHANGED <<config, powertrain, Hp_design, hybridization_profile, design_vars,
                   weight_breakdown, pc, loc, sim_log, nsizings>>

\* powertrain.size_battery(mission_energy_Wh), a method of DualMotorDEPPowertrain
\* only; its two divisions (lines 283 and 286) raise on a zero divisor.
CallSizeBattery(mission_energy_Wh) ==
    /\ powertrain[1].class = "DualMotorDEP"
    /\ IF FromConfig(config).battery_DOD = 0
          \/ FromConfig(config).battery_specific_energy_Wh_kg = 0
       THEN /\ raised' = "ZeroDivisionError"
            /\ UNCHANGED powertrain
       ELSE /\ raised' = "none"
            /\ powertrain' = Some(size_battery(powertrain[1], FromConfig(config),
                                               mission_energy_Wh))
    /\ last_call' = [op |-> "size_battery", E_Wh |-> mission_energy_Wh]
    /\ result' = None
    /\ prev' = Snapshot
    /\ UNCHANGED <<config, Hp_design, hybridization_profile, design_vars,
                   weight_breakdown, pc, loc, sim_log, nsizings>>

\* powertrain.get_total_propulsion_weight()
CallGetTotalPropulsionWeight ==
    /\ result' = Some([weight_lb |-> get_total_propulsion_weight(powertrain[1])])
    /\ last_call' = [op |-> "get_total_propulsion_weight"]
    /\ raised' = "none"
    /\ prev' = Snapshot
    /\ UNCHANGED <<config, powertrain, Hp_design, hybridization_profile, design_vars,
                   weight_breakdown, pc, loc, sim_log, nsizings>>

\* aircraft.get_lift_augmentation_factor(blown_lift_active)
CallGetLiftAugmentationFactor(blown_lift_active) ==
    /\ result' = Some([factor |-> get_lift_augmentation_factor(config, blown_lift_active)])
    /\ last_call' = [op |-> "get_lift_augmentation_factor",
                     blown_lift_active |-> blown_lift_active]
    /\ raised' = "none"
    /\ prev' = Snapshot
    /\ UNCHANGED <<config, powertrain, Hp_design, hybridization_profile, design_vars,
                   weight_breakdown, pc, loc, sim_log, nsizings>>

NextPT ==
    \/ \E P_shaft_kW \in PowerInputs, Hp \in RatioInputs : CallSizeComponents(P_shaft_kW, Hp)
    \/ \E P_required_kW \in PowerInputs, Hp \in RatioInputs : CallGetPowerSplit(P_required_kW, Hp)
    \/ \E P_required_kW \in PowerInputs, Hp \in RatioInputs : CallGetPowerSplitOEI(P_required_kW, Hp)
    \/ \E mission_energy_Wh \in EnergyInputs : CallSizeBattery(mission_energy_Wh)
    \/ CallGetTotalPropulsionWeight
    \/ \E blown_lift_active \in BOOLEAN : CallGetLiftAugmentationFactor(blown_lift_active)

SpecPT == InitPT /\ [][NextPT]_vars

-----------------------------------------------------------------------------
(* Properties of the aircraft object (under Spec) *)

\* The name is one of the six keys of arch_map once lowered.
Recognized(architecture) == \E i \in 1..Len(ArchKeys) : ArchKeys[i] = Lower(architecture)

\* C1: a set_powertrain call whose architecture name is none of the six
\* recognized names (compared case-insensitively) raises ValueError and leaves
\* powertrain, Hp_design and hybridization_profile exactly as they were.
C1_UnknownArchitectureRejected ==
    [][ (pc = "idle" /\ last_call'.op = "set_powertrain"
            /\ ~Recognized(last_call'.architecture))
        => (raised' = "ValueError" /\ UNCHANGED selection_vars) ]_vars

\* An unrecognized name was rejected on an aircraft that already had a
\* powertrain and a profile selected, and they are still there.
C1_Witness ==
    /\ last_call.op = "set_powertrain"
    /\ ~Recognized(last_call.architecture)
    /\ raised = "ValueError"
    /\ powertrain # None
    /\ hybridization_profile = Some(ProfileFull)
    /\ Hp_design = 500000

\* C2: size_aircraft on an aircraft with no powertrain selected raises
\* ValueError before any iteration runs and leaves TOGW_lb, OEW_lb, W_fuel_lb,
\* W_battery_lb, S_wing_ft2 and WS_psf unchanged.
C2_SizingNeedsPowertrain ==
    [][ (pc = "idle" /\ last_call'.op = "size_aircraft" /\ powertrain = None)
        => (raised' = "ValueError" /\ pc' = "idle"
              /\ UNCHANGED <<design_vars, loc, sim_log, weight_breakdown>>) ]_vars

\* size_aircraft was called with a positive iteration cap before any
\* powertrain was selected, and failed.
C2_Witness ==
    /\ last_call.op = "size_aircraft"
    /\ last_call.max_iterations > 0
    /\ powertrain = None
    /\ raised = "ValueError"
    /\ pc = "idle"
    /\ TOGW_lb = config.weight_iteration.initial_TOGW_guess_lb
    /\ OEW_lb = 0

\* C3: for every iteration cap (zero included) and every tolerance, a
\* size_aircraft call in which no iteration met the tolerance ends after
\* exactly max_iterations iterations without raising, and returns a result
\* with converged = false.
C3_SoftFailureAtAnyCap ==
    (/\ pc = "idle"
     /\ last_call.op = "size_aircraft"
     /\ powertrain # None
     /\ loc # None
     /\ ~(loc[1].bound /\ loc[1].error < loc[1].tolerance))
    => (/\ raised = "none"
        /\ result # None
        /\ result[1].converged = FALSE
        /\ loc[1].iterations_run = last_call.max_iterations)

\* C4: at the end of every iteration error = |TOGW_new - TOGW_guess| /
\* TOGW_guess is compared with the tolerance; if it is below, the loop stops
\* with the guess untouched and the result says converged; if not, the next
\* guess is 0.7 * TOGW_guess + 0.3 * TOGW_new, and only then may another
\* iteration start.
C4_ConvergenceTestAndUpdate ==
    [][ /\ (pc = "close") =>
              /\ loc'[1].error
                    = MulDiv(Abs(loc'[1].TOGW_new_lb - loc[1].TOGW_guess_lb), U,
                             loc[1].TOGW_guess_lb)
              /\ IF loc'[1].error < loc[1].tolerance
                 THEN /\ pc' = "finish"
                      /\ loc'[1].TOGW_guess_lb = loc[1].TOGW_guess_lb
                      /\ loc'[1].iteration = loc[1].iteration
                 ELSE /\ loc'[1].TOGW_guess_lb
                           = (7 * loc[1].TOGW_guess_lb + 3 * loc'[1].TOGW_new_lb) \div 10
                      /\ loc'[1].iteration = loc[1].iteration + 1
                      /\ pc' \in {"loop_head", "finish"}
        /\ (pc' = "loop_head" /\ loc'[1].bound)
              => loc'[1].error >= loc'[1].tolerance
        /\ (pc = "finish" /\ result' # None)
              => result'[1].converged = (loc[1].error < loc[1].tolerance) ]_vars

\* The loop stopped at its second iteration because the test held there,
\* after one relaxed update.
C4_Witness ==
    /\ pc = "finish"
    /\ loc[1].bound
    /\ loc[1].iterations_run = 2
    /\ loc[1].iteration = 1
    /\ loc[1].error < loc[1].tolerance
    /\ loc[1].TOGW_guess_lb # 15000 * Q

\* C5: a size_aircraft call that follows a size_aircraft call with the same
\* arguments, with nothing done to the aircraft in between, ends as that one
\* did: same exception or same results.
C5_RepeatedSizingIdentical ==
    (/\ pc = "idle"
     /\ last_call.op = "size_aircraft"
     /\ prev # None
     /\ prev[1].call = last_call)
    => (raised = prev[1].raised /\ result = prev[1].result)

\* Two sizing runs with the same arguments returned the same results, the
\* first having left a TOGW other than 15000 lb on the aircraft.
C5_Witness ==
    /\ pc = "idle"
    /\ last_call.op = "size_aircraft"
    /\ prev # None
    /\ prev[1].call = last_call
    /\ result # None
    /\ result = prev[1].result
    /\ result[1].TOGW_lb # 15000 * Q
    /\ powertrain[1].P_GT_kW > 0

\* The six segment names in mission order.
CanonicalOrder == <<"takeoff", "climb", "cruise", "descent", "loiter", "landing">>

\* C6: in every iteration the segments simulated so far are the first ones of
\* takeoff, climb, cruise, descent, loiter, landing, in that order and once
\* each, and the iteration is closed when all six are done.
C6_SegmentsInFixedOrder ==
    /\ Len(sim_log) <= Len(CanonicalOrder)
    /\ sim_log = SubSeq(CanonicalOrder, 1, Len(sim_log))
    /\ (pc = "segment" => Len(sim_log) < Len(CanonicalOrder))
    /\ (pc = "close" => sim_log = CanonicalOrder)

\* A whole mission was simulated for a profile given out of order, with a key
\* that is no segment and with segments missing.
C6_Witness ==
    /\ pc = "close"
    /\ sim_log = CanonicalOrder
    /\ last_call.hybridization_profile = Some(ProfileArg)
    /\ loc[1].iterations_run = 2

-----------------------------------------------------------------------------
(* Properties of a powertrain object (under SpecPT) *)

\* C7: get_power_split of the conventional class returns motor power 0,
\* battery power 0 and turbine power equal to the required power, for every
\* required power and every Hp, sized or not.
C7_ConventionalSplit ==
    (last_call.op = "get_power_split" /\ powertrain[1].class = "Conventional")
    => (/\ result[1].P_EM_kW = 0
        /\ result[1].battery_power_W = 0
        /\ result[1].P_GT_kW = last_call.P_kW)

\* A sized conventional powertrain was asked for a positive power with Hp > 0.
C7_Witness ==
    /\ last_call.op = "get_power_split"
    /\ powertrain[1].class = "Conventional"
    /\ powertrain[1].P_GT_kW > 0
    /\ last_call.Hp > 0
    /\ last_call.P_kW > 0
    /\ result[1].P_GT_kW = last_call.P_kW

\* C8: get_power_split of the parallel hybrid, for Hp in [0, 1]: turbine power
\* plus motor power is the required power, the motor power is 0 at Hp = 0 and
\* the turbine power is 0 at Hp = 1.
C8_ParallelSplit ==
    (/\ last_call.op = "get_power_split"
     /\ powertrain[1].class = "ParallelHybrid"
     /\ last_call.Hp >= 0 /\ last_call.Hp <= U)
    => (/\ result[1].P_GT_kW + result[1].P_EM_kW = last_call.P_kW
        /\ (last_call.Hp = 0 => result[1].P_EM_kW = 0)
        /\ (last_call.Hp = U => result[1].P_GT_kW = 0))

\* A parallel hybrid was asked for a positive power at Hp = 1.
C8_Witness ==
    /\ last_call.op = "get_power_split"
    /\ powertrain[1].class = "ParallelHybrid"
    /\ last_call.Hp = U
    /\ last_call.P_kW > 0
    /\ result[1].P_GT_kW = 0
    /\ result[1].P_EM_kW = last_call.P_kW

\* C9: get_power_split of the serial hybrid: the generator output behind the
\* reported turbine power (P_GT_kW * GEN_efficiency) is at most the rating
\* P_GEN_kW; battery_power_W is 0 when the electrical demand P / EM_efficiency
\* is at most the rating and the shortfall otherwise; and a call with the same
\* power on the same object returns the same split whatever Hp.
C9_SerialGeneratorCap ==
    (last_call.op = "get_power_split" /\ powertrain[1].class = "SerialHybrid")
    => (/\ MulDiv(result[1].P_GT_kW, FromConfig(config).GEN_efficiency, U)
              <= powertrain[1].P_GEN_kW
        /\ IF MulDiv(last_call.P_kW, U, FromConfig(config).EM_efficiency)
                <= powertrain[1].P_GEN_kW
           THEN result[1].battery_power_W = 0
           ELSE result[1].battery_power_W
                  = MulDiv(last_call.P_kW, U, FromConfig(config).EM_efficiency)
                      - powertrain[1].P_GEN_kW
        /\ (/\ prev[1].call.op = "get_power_split"
            /\ prev[1].call.P_kW = last_call.P_kW
            /\ prev[1].powertrain = powertrain[1])
           => prev[1].result = result)

\* A sized serial hybrid was asked twice, with different Hp, for a power
\* beyond what its generator can supply, and the battery made up the rest.
C9_Witness ==
    /\ last_call.op = "get_power_split"
    /\ powertrain[1].class = "SerialHybrid"
    /\ powertrain[1].P_GEN_kW > 0
    /\ MulDiv(last_call.P_kW, U, FromConfig(config).EM_efficiency) > powertrain[1].P_GEN_kW
    /\ result[1].battery_power_W > 0
    /\ prev[1].call.op = "get_power_split"
    /\ prev[1].call.P_kW = last_call.P_kW
    /\ prev[1].call.Hp # last_call.Hp
    /\ prev[1].result = result

\* C10: when a parallel hybrid is sized twice for the same positive shaft
\* power, the second time with a larger Hp, its motor mass is strictly larger
\* and its turbine mass strictly smaller than after the first sizing.
C10_ParallelSizingMonotone ==
    (/\ last_call.op = "size_components"
     /\ powertrain[1].class = "ParallelHybrid"
     /\ prev[1].call.op = "size_components"
     /\ prev[1].call.P_kW = last_call.P_kW
     /\ last_call.P_kW > 0
     /\ last_call.Hp > prev[1].call.Hp)
    => (/\ powertrain[1].m_EM_lb > prev[1].powertrain.m_EM_lb
        /\ powertrain[1].m_GT_lb < prev[1].powertrain.m_GT_lb)

\* A parallel hybrid was sized for the same positive power at a smaller and
\* then at a larger Hp.
C10_Witness ==
    /\ last_call.op = "size_components"
    /\ powertrain[1].class = "ParallelHybrid"
    /\ prev[1].call.op = "size_components"
    /\ prev[1].call.P_kW = last_call.P_kW
    /\ last_call.P_kW > 0
    /\ last_call.Hp > prev[1].call.Hp
    /\ prev[1].call.Hp > 0
    /\ powertrain[1].m_EM_lb > prev[1].powertrain.m_EM_lb
    /\ powertrain[1].m_GT_lb < prev[1].powertrain.m_GT_lb


-----------------------------------------------------------------------------
(* Properties of battery sizing (under Spec) *)

\* No battery is modelled for this configuration: its battery specific energy
\* or its depth of discharge is zero.
NoBattery(cfg) ==
    \/ cfg.hybrid_system.battery.specific_energy_Wh_kg = 0
    \/ cfg.hybrid_system.battery.depth_of_discharge_percent = 0

\* C11: with a battery specific energy of 0 or a depth of discharge of 0, every
\* iteration ends with a battery mass of exactly 0, whatever battery energy the
\* mission drew, and with a new TOGW of OEW + payload + 1.06 * mission fuel;
\* a returned result has battery mass 0 too.
C11_NoBatteryMassWithoutBattery ==
    [][ /\ (pc = "close" /\ NoBattery(config)) =>
              /\ loc'[1].W_battery_lb = 0
              /\ loc'[1].W_fuel_lb = MulDiv(loc[1].total_fuel_lb, 106, 100)
              /\ loc'[1].TOGW_new_lb
                    = loc[1].OEW_lb + config.mission_requirements.payload_weight_lb
                        + loc'[1].W_fuel_lb
        /\ (pc = "finish" /\ NoBattery(config) /\ result' # None) =>
              /\ result'[1].W_battery_lb = 0
              /\ W_battery_lb' = 0 ]_vars

\* A sizing run returned a result without battery mass for a configuration of
\* zero specific energy, after a mission that drew battery energy.
C11_Witness ==
    /\ pc = "idle"
    /\ config.hybrid_system.battery.specific_energy_Wh_kg = 0
    /\ result # None
    /\ loc # None
    /\ loc[1].total_battery_Wh > 0
    /\ loc[1].total_fuel_lb > 0
    /\ result[1].W_battery_lb = 0
    /\ result[1].TOGW_lb = loc[1].OEW_lb + 1200 * Q + loc[1].W_fuel_lb

\* The largest of a finite set of naturals, 0 for the empty set.
SetMax(S) == IF S = {} THEN 0 ELSE CHOOSE m \in S : \A n \in S : n <= m

\* (total mission battery energy / DOD) / specific energy, in kg (scale Q).
EnergyLimitedKg(cfg, total_battery_Wh) ==
    MulDiv(MulDiv(total_battery_Wh, U, FromConfig(cfg).battery_DOD), U,
           cfg.hybrid_system.battery.specific_energy_Wh_kg)

\* The largest average battery power (W) of the segments that took time.
PeakSegmentPowerW(segments) ==
    SetMax({MulDiv(segments[i].battery_Wh, 3600 * Q, segments[i].time_sec) :
               i \in {j \in 1..Len(segments) : segments[j].time_sec > 0}})

\* peak power / specific power in kg (scale Q), 0 for a zero specific power.
PowerLimitedKg(cfg, segments) ==
    IF cfg.hybrid_system.battery.specific_power_kW_kg = 0 THEN 0
    ELSE MulDiv(PeakSegmentPowerW(segments), Q,
                cfg.hybrid_system.battery.specific_power_kW_kg)

\* C12: when a battery is modelled, the battery mass an iteration ends with is
\* the larger of the energy-limited mass and the power-limited mass, the
\* latter from the peak average power over the segments of nonzero duration
\* and 0 for a zero specific power; the power constraint is recorded as
\* governing exactly when the power-limited mass is strictly larger.
C12_BatteryMassIsMaxOfLimits ==
    [][ (pc = "close" /\ ~NoBattery(config)) =>
          /\ loc'[1].W_battery_lb
                = MulDiv(Max2(EnergyLimitedKg(config, loc[1].total_battery_Wh),
                              PowerLimitedKg(config, loc[1].segments)),
                         220462, 100000)
          /\ loc'[1].max_battery_power_kW = PeakSegmentPowerW(loc[1].segments)
          /\ (loc'[1].sizing_constraint = "POWER")
                <=> (PowerLimitedKg(config, loc[1].segments)
                        > EnergyLimitedKg(config, loc[1].total_battery_Wh))
          /\ loc'[1].sizing_constraint \in {"POWER", "energy"} ]_vars

\* An iteration ended with a battery sized by its peak power: the
\* power-limited mass was above a positive energy-limited mass.
C12_Witness ==
    /\ pc = "finish"
    /\ loc[1].bound
    /\ loc[1].sizing_constraint = "POWER"
    /\ EnergyLimitedKg(config, loc[1].total_battery_Wh) > 0
    /\ loc[1].W_battery_lb
          = MulDiv(PowerLimitedKg(config, loc[1].segments), 220462, 100000)
    /\ loc[1].W_battery_lb
          > MulDiv(EnergyLimitedKg(config, loc[1].total_battery_Wh), 220462, 100000)

\* Every battery figure of a result is zero.
BatteryOutputsZero(r) ==
    /\ r.W_battery_lb = 0
    /\ r.battery_fraction = 0
    /\ r.battery_c_rate = 0
    /\ r.battery_c_rate_max = 0
    /\ r.battery_peak_power_kW = 0

\* C13 as stated: without a battery (specific energy or DOD zero) every
\* battery output of the result is zero and the governing constraint is
\* reported as "none".
C13_NoBatteryReportedAsNone ==
    (result # None /\ NoBattery(config))
    => (BatteryOutputsZero(result[1])
        /\ result[1].battery_sizing_constraint = "none")

\* C13, amended: without a battery (specific energy or DOD zero) every
\* battery output of the result is zero and the governing constraint is
\* reported as "N/A", as is the segment of the peak.
C13_NoBatteryReportedAsNA ==
    (result # None /\ NoBattery(config))
    => (BatteryOutputsZero(result[1])
        /\ result[1].battery_sizing_constraint = "N/A"
        /\ result[1].battery_peak_segment = "N/A")

\* A result for a configuration with a depth of discharge of zero, after a
\* mission whose segments drew battery energy.
C13_Witness ==
    /\ result # None
    /\ config.hybrid_system.battery.depth_of_discharge_percent = 0
    /\ loc[1].total_battery_Wh > 0
    /\ result[1].battery_sizing_constraint = "N/A"
    /\ BatteryOutputsZero(result[1])

\* C14: a result of sizing the Conventional architecture has a battery
\* fraction and a battery mass of 0, and no segment of its mission drew
\* battery energy, for every configuration and profile.
C14_ConventionalHasNoBattery ==
    (result # None /\ powertrain[1].class = "Conventional")
    => (/\ result[1].battery_fraction = 0
        /\ result[1].W_battery_lb = 0
        /\ \A i \in 1..Len(loc[1].segments) : loc[1].segments[i].battery_Wh = 0)

\* C15 as stated: a result of sizing the FullyElectric architecture with
\* nonzero battery specific energy and specific power has a fuel fraction of 0
\* and a governing constraint that reads "energy" or "power".
C15_ElectricConstraintLowercase ==
    (/\ result # None
     /\ powertrain[1].class = "FullyElectric"
     /\ config.hybrid_system.battery.specific_energy_Wh_kg > 0
     /\ config.hybrid_system.battery.specific_power_kW_kg > 0)
    => (/\ result[1].fuel_fraction = 0
        /\ result[1].battery_sizing_constraint \in {"energy", "power"})

\* C15, amended: a result of sizing the FullyElectric architecture with
\* nonzero battery specific energy, specific power and depth of discharge has
\* a fuel fraction of 0, no fuel burnt in any segment, and a governing
\* constraint that reads "energy" or "POWER", never "N/A".
C15_ElectricNoFuelBatteryGoverned ==
    (/\ result # None
     /\ powertrain[1].class = "FullyElectric"
     /\ config.hybrid_system.battery.specific_energy_Wh_kg > 0
     /\ config.hybrid_system.battery.specific_power_kW_kg > 0
     /\ config.hybrid_system.battery.depth_of_discharge_percent > 0)
    => (/\ result[1].fuel_fraction = 0
        /\ result[1].W_fuel_lb = 0
        /\ \A i \in 1..Len(loc[1].segments) : loc[1].segments[i].fuel_lb = 0
        /\ result[1].battery_sizing_constraint \in {"energy", "POWER"})

\* A FullyElectric result whose battery was sized by its peak power.
C15_Witness ==
    /\ result # None
    /\ powertrain[1].class = "FullyElectric"
    /\ config.hybrid_system.battery.specific_power_kW_kg > 0
    /\ result[1].fuel_fraction = 0
    /\ result[1].battery_sizing_constraint = "POWER"
    /\ result[1].W_battery_lb > 0



\* The value a profile gives a segment name, 0.0 when it has no such key.
ProfileValue(profile, name) ==
    IF \E i \in 1..Len(profile) : profile[i][1] = name
    THEN profile[CHOOSE i \in 1..Len(profile) : profile[i][1] = name][2]
    ELSE 0

\* The Hp a segment is to be built with: from the profile passed to
\* size_aircraft, else from the one set_powertrain stored, else Hp_design for
\* takeoff, climb and landing and 0 for cruise, descent and loiter.
ExpectedSegmentHp(name) ==
    IF last_call.hybridization_profile # None
    THEN ProfileValue(last_call.hybridization_profile[1], name)
    ELSE IF hybridization_profile # None
    THEN ProfileValue(hybridization_profile[1], name)
    ELSE IF name \in {"takeoff", "climb", "landing"} THEN Hp_design ELSE 0

Unsized(pt) ==
    /\ pt.P_GT_kW = 0 /\ pt.P_EM_kW = 0 /\ pt.P_GEN_kW = 0
    /\ pt.m_GT_lb = 0 /\ pt.m_EM_lb = 0 /\ pt.m_GEN_lb = 0

\* C18: while the mission of an iteration is simulated (the only place where
\* get_power_split is called), the powertrain is the one size_components made
\* for the shaft power of that very iteration: sizing it again for that power
\* changes nothing, it is not as __init__ left it, and a DualMotorDEP has its
\* cruise motors, so that its 'motors not sized yet' branch is not taken.
C18_SizedBeforePowerSplit ==
    (pc = "segment")
    => (/\ powertrain # None
        /\ loc[1].P_shaft_kW > 0
        /\ powertrain[1] = size_components(powertrain[1], FromConfig(config),
                                           config.dep_system, loc[1].P_shaft_kW,
                                           Hp_design)
        /\ ~Unsized(powertrain[1])
        /\ (powertrain[1].class = "DualMotorDEP")
              => powertrain[1].cruise_motors # None)

\* The first segment of a second iteration is about to be simulated on a
\* DualMotorDEP sized for a shaft power other than that of the first iteration.
C18_Witness ==
    /\ pc = "segment"
    /\ loc[1].seg_idx = 1
    /\ loc[1].iterations_run = 2
    /\ powertrain[1].class = "DualMotorDEP"
    /\ powertrain[1].cruise_motors # None
    /\ loc[1].P_shaft_kW # constraint_analysis(config, 15000 * Q)[2]


-----------------------------------------------------------------------------
(* Properties of single calls (under SpecPT), continued *)

\* C16: get_lift_augmentation_factor returns exactly 1.0 when the blown-lift
\* flag is inactive or the DEP system is disabled, and otherwise
\* 1 + (lift_aug_max - 1) * blown_span_fraction, which is 1.52 for 1.8 and 0.65.
C16_LiftAugmentationFactor ==
    (last_call.op = "get_lift_augmentation_factor")
    => (/\ (~last_call.blown_lift_active \/ ~config.dep_system.enabled)
              => result[1].factor = U
        /\ (last_call.blown_lift_active /\ config.dep_system.enabled)
              => /\ result[1].factor - U
                       = ((config.dep_system.lift_augmentation_factor_max - U) \div Q)
                            * (config.dep_system.blown_span_fraction \div Q)
                 /\ (/\ config.dep_system.lift_augmentation_factor_max = 1800000
                     /\ config.dep_system.blown_span_fraction = 650000)
                       => result[1].factor = 1520000)

\* The factor was asked for with the flag active and the DEP system enabled,
\* after it had been asked for with the flag inactive, and came out as 1.52
\* and 1.0.
C16_Witness ==
    /\ last_call.op = "get_lift_augmentation_factor"
    /\ last_call.blown_lift_active
    /\ config.dep_system.enabled
    /\ result[1].factor = 1520000
    /\ prev[1].call.op = "get_lift_augmentation_factor"
    /\ ~prev[1].call.blown_lift_active
    /\ prev[1].result[1].factor = U

\* The masses of the components a powertrain owns, battery and fuel left out.
OwnedComponentMass(pt) ==
    IF pt.class = "DualMotorDEP"
    THEN pt.m_highlift_lb + pt.m_cruise_motors_lb + pt.m_wiring_lb + pt.m_controllers_lb
    ELSE pt.m_GT_lb + pt.m_EM_lb + pt.m_GEN_lb

\* C19: whatever was called on a powertrain before, its total propulsion
\* weight is the sum of the masses of the components it owns and includes
\* neither battery nor fuel mass.
C19_PropulsionWeightExcludesConsumables ==
    (last_call.op = "get_total_propulsion_weight")
    => result[1].weight_lb = OwnedComponentMass(powertrain[1])


-----------------------------------------------------------------------------
(* Properties of the mission simulation and the sizing loop (under Spec),  *)
(* continued                                                               *)

\* The sums of the values stored on the first k segments:
\* <<time_sec, fuel_lb, battery_Wh>>.
RECURSIVE StoredSums(_, _)
StoredSums(segments, k) ==
    IF k = 0 THEN <<0, 0, 0>>
    ELSE LET before == StoredSums(segments, k - 1)
         IN  <<before[1] + segments[k].time_sec,
               before[2] + segments[k].fuel_lb,
               before[3] + segments[k].battery_Wh>>

\* The weight and the totals of simulate_mission agree with the sums s of
\* the values stored on the segments simulated so far.
CarriedForward(l, s) ==
    /\ l.W_current_lb = l.TOGW_guess_lb - s[2]
    /\ l.total_fuel_lb = s[2]
    /\ l.total_battery_Wh = s[3]
    /\ l.total_time_sec = s[1]

\* C21: in simulate_mission the weight handed to the k-th segment is the
\* starting TOGW less the fuel burnt by the segments before it, whatever
\* battery energy they drew, and the totals are the sums of the values stored
\* on the segments; after the last segment these are the returned totals.
C21_WeightCarriedForward ==
    (pc \in {"segment", "close"})
    => CarriedForward(loc[1], StoredSums(loc[1].segments, loc[1].seg_idx - 1))

\* The fourth segment is about to be simulated after segments that burnt
\* fuel and drew battery energy.
C21_Witness ==
    /\ pc = "segment"
    /\ loc[1].seg_idx = 4
    /\ loc[1].segments[2].fuel_lb > 0
    /\ loc[1].segments[2].battery_Wh > 0
    /\ loc[1].W_current_lb < loc[1].TOGW_guess_lb

\* The Hp values of the segments of a mission, in mission order.
SegmentHps(segments) == [i \in 1..Len(segments) |-> segments[i].Hp]

\* C22: while the mission of an iteration is simulated, the Hp that
\* size_components was called with at the head of that iteration
\* (self.Hp_design, line 287) is the largest Hp of the segments of that
\* mission, however the profile came in.
C22_SizedForLargestSegmentHp ==
    (pc = "segment") => Hp_design = SeqMax(SegmentHps(loc[1].segments))

\* The configuration with the high-lift motor set taken away and all else,
\* the blown-lift figures included, as it is.
WithoutHighLiftMotors(cfg) == [cfg EXCEPT !.dep_system.number_of_highlift_motors = 0]

\* The energy (Wh) the high-lift motor set of the aircraft draws over a
\* segment: number of motors times rated power per motor times duration when
\* the segment's blown-lift flag is set and DEP is enabled, else nothing.
HighLiftWh(cfg, segment) ==
    IF segment.blown_lift_active /\ cfg.dep_system.enabled
    THEN MulDiv(cfg.dep_system.number_of_highlift_motors * cfg.dep_system.motor_power_kW,
                segment.time_sec, 3600 * Q)
    ELSE 0

\* The energy (Wh) get_power_split's battery_power_W amounts to over the
\* k-th segment, flown at the weight the segments before it left.
CruiseWh(cfg, pt, l, k) ==
    SimulateSegmentByName(WithoutHighLiftMotors(cfg), pt, l.segments[k],
                          l.TOGW_guess_lb - StoredSums(l.segments, k - 1)[2],
                          l.S_wing_ft2)[3]

\* C23: the battery energy stored on every simulated segment is the draw of
\* the cruise motors over the segment plus, once, that of the high-lift motor
\* set (number of motors times rated power per motor times duration when the
\* blown-lift flag is set and DEP is enabled, else zero), and the split of a
\* DualMotorDEP does not depend on its high-lift motor set.
C23_OneContributionPerMotorSet ==
    (pc \in {"segment", "close"})
    => (/\ \A k \in 1..(loc[1].seg_idx - 1) :
              loc[1].segments[k].battery_Wh =
                  CruiseWh(config, powertrain[1], loc[1], k)
                      + HighLiftWh(config, loc[1].segments[k])
        /\ (powertrain[1].class = "DualMotorDEP")
              => \A k \in 1..Len(loc[1].segments) :
                    get_power_split(powertrain[1], FromConfig(config),
                                    loc[1].P_shaft_kW, loc[1].segments[k].Hp)
                    = get_power_split([powertrain[1] EXCEPT !.highlift_motors.num_motors = 0],
                                      FromConfig(config), loc[1].P_shaft_kW,
                                      loc[1].segments[k].Hp))


\* C25: a step of the mission simulation leaves the TOGW guess, the wing
\* area and the whole powertrain as they are, and so does every step of a
\* sizing run but two: the TOGW guess moves only at the end of an iteration,
\* to the relaxed update, and the wing area and the powertrain only at the
\* head of one, the powertrain to what size_components makes of it.
C25_FixedDuringMission ==
    [][/\ (pc = "segment")
          => (/\ loc'[1].TOGW_guess_lb = loc[1].TOGW_guess_lb
              /\ loc'[1].S_wing_ft2 = loc[1].S_wing_ft2
              /\ powertrain' = powertrain
              /\ UNCHANGED <<TOGW_lb, S_wing_ft2>>)
       /\ (pc = "close")
          => (/\ loc'[1].TOGW_guess_lb \in
                     {loc[1].TOGW_guess_lb,
                      Relax(loc[1].TOGW_guess_lb, loc'[1].TOGW_new_lb)}
              /\ loc'[1].S_wing_ft2 = loc[1].S_wing_ft2
              /\ powertrain' = powertrain)
       /\ (pc = "loop_head")
          => (/\ loc'[1].TOGW_guess_lb = loc[1].TOGW_guess_lb
              /\ powertrain' = Some(size_components(powertrain[1], FromConfig(config),
                                                    config.dep_system,
                                                    loc'[1].P_shaft_kW, Hp_design)))
       /\ (pc = "finish") => (powertrain' = powertrain /\ loc' = loc)]_vars

\* The third segment of a second iteration is about to be simulated: the
\* TOGW guess has moved since the first simulation and the powertrain is sized.
C25_Witness ==
    /\ pc = "segment"
    /\ loc[1].seg_idx = 3
    /\ loc[1].iterations_run = 2
    /\ loc[1].TOGW_guess_lb # 15000 * Q
    /\ loc[1].segments[2].fuel_lb > 0
    /\ powertrain[1].P_GT_kW > 0


\* What the k-th segment stores when it is flown, at the weight the segments
\* before it left, with get_power_split given the Hp the mission's profile
\* holds for its name (0 without such a key): <<time_sec, fuel_lb, battery_Wh>>.
FlownAtProfileHp(cfg, pt, l, k) ==
    SimulateSegmentByName(cfg, pt,
        [l.segments[k] EXCEPT
            !.Hp = ProfileValue(l.hybridization_profile, l.segments[k].name)],
        l.TOGW_guess_lb - StoredSums(l.segments, k - 1)[2], l.S_wing_ft2)

\* What the k-th segment has stored.
Stored(segment) == <<segment.time_sec, segment.fuel_lb, segment.battery_Wh>>

\* C26: each of the six segments carries the value the profile holds for its
\* name, unaltered also when it lies outside [0, 1], and 0 when the profile
\* has no such key; and what a simulated segment stores is what
\* get_power_split gives for that very value.
C26_HpPassedUnaltered ==
    (pc \in {"segment", "close"})
    => (/\ Len(loc[1].segments) = 6
        /\ \A k \in 1..6 :
              loc[1].segments[k].Hp =
                  ProfileValue(loc[1].hybridization_profile, loc[1].segments[k].name)
        /\ \A k \in 1..(loc[1].seg_idx - 1) :
              Stored(loc[1].segments[k])
                  = FlownAtProfileHp(config, powertrain[1], loc[1], k))

\* A parallel hybrid has flown the climb at the profile's Hp of 1.2, so that
\* its turbine share and fuel burn came out negative, and the takeoff, for
\* which the profile has no key, at Hp 0 with no draw from the cruise motor.
C26_Witness ==
    /\ pc = "segment"
    /\ loc[1].seg_idx = 3
    /\ powertrain[1].class = "ParallelHybrid"
    /\ ~config.dep_system.enabled
    /\ loc[1].hybridization_profile = ProfileArg
    /\ loc[1].segments[2].name = "climb"
    /\ loc[1].segments[2].Hp = 1200000
    /\ loc[1].segments[2].fuel_lb < 0
    /\ loc[1].segments[1].Hp = 0
    /\ loc[1].segments[1].battery_Wh = 0


\* The blown-lift factor the constraint analysis is run with and whether it
\* is used: from the configuration alone.
SizingAugmentation(cfg) ==
    IF cfg.dep_system.enabled /\ cfg.dep_system.use_for_wing_sizing
    THEN <<get_lift_augmentation_factor(cfg, TRUE), TRUE>>
    ELSE <<U, FALSE>>

\* The two wing loadings (psf) that bound the design: stall-limited and
\* landing-limited, the latter as its takeoff equivalent.
WingLoadingLimits(cfg, aug) ==
    {WS_stall_max(cfg, CLmax_eff(cfg.aerodynamics.CLmax_clean, aug[1], aug[2])),
     WS_landing_max_TO(cfg, CLmax_eff(cfg.aerodynamics.CLmax_landing, aug[1], aug[2]))}

\* The five power-equivalent constraints (HP) at wing loading WS for a clean
\* and a takeoff CLmax: takeoff, OEI climb, AEO climb, ceiling and cruise.
PowerConstraints(cfg, TOGW, WS, CLc, CLt) ==
    {P_takeoff_HP(cfg, TOGW, WS, CLt),
     PowerHP(cfg, TW_climb_OEI(cfg, CLc), TOGW, MulDiv(V_stall_req_fps(cfg), 12, 10)),
     PowerHP(cfg, TW_climb_AEO(cfg, CLc), TOGW, MulDiv(V_stall_req_fps(cfg), 12, 10)),
     P_ceiling_HP(cfg, TOGW,
                  V_climb_ceiling(RhoSlugAt(cfg.mission_requirements.service_ceiling_ft), CLc)),
     PowerHP(cfg, TW_cruise(cfg, TOGW,
                            q_cruise(cfg, RhoSlugAt(cfg.mission_requirements.cruise_altitude_ft)),
                            WS),
             TOGW, V_cruise_fps(cfg))}

\* The smallest element of a non-empty set of integers.
SetMin(S) == CHOOSE x \in S : \A y \in S : x <= y

\* The pair the constraint analysis is to return for a TOGW guess: a function
\* of the configuration and the guess, with no powertrain in it.
ExpectedDesignPoint(cfg, TOGW, aug) ==
    <<SetMin(WingLoadingLimits(cfg, aug)),
      HPtoKW(SetMax(PowerConstraints(cfg, TOGW, SetMin(WingLoadingLimits(cfg, aug)),
                                     CLmax_eff(cfg.aerodynamics.CLmax_clean, aug[1], aug[2]),
                                     CLmax_eff(cfg.aerodynamics.CLmax_takeoff, aug[1], aug[2]))))>>

\* C27: the head of every iteration takes from the constraint analysis a wing
\* loading and a shaft power that depend on the configuration and the TOGW
\* guess only, whatever powertrain is selected and however it is sized: the
\* smaller of the stall-limited and the landing-limited loading and the
\* largest of the five power constraints; and the analysis changes nothing of
\* the aircraft, the powertrain changing by size_components alone.
C27_ConstraintAnalysisAgnostic ==
    [][(pc = "loop_head")
       => (/\ <<loc'[1].WS_psf, loc'[1].P_shaft_kW>> =
                  ExpectedDesignPoint(config, loc[1].TOGW_guess_lb,
                                      SizingAugmentation(config))
           /\ loc'[1].TOGW_guess_lb = loc[1].TOGW_guess_lb
           /\ powertrain' = Some(size_components(powertrain[1], FromConfig(config),
                                                 config.dep_system,
                                                 loc'[1].P_shaft_kW, Hp_design))
           /\ UNCHANGED <<config, Hp_design, hybridization_profile, design_vars>>)]_vars

\* A second iteration has taken its design point, on a powertrain the first
\* one sized, for a TOGW guess other than the first; the stall-limited wing
\* loading is the smaller one and the shaft power differs from the first.
C27_Witness ==
    /\ pc = "segment"
    /\ loc[1].iterations_run = 2
    /\ powertrain[1].class = "SerialHybrid"
    /\ loc[1].TOGW_guess_lb # 15000 * Q
    /\ loc[1].WS_psf = WS_stall_max(config, config.aerodynamics.CLmax_clean)
    /\ loc[1].WS_psf < WS_landing_max_TO(config, config.aerodynamics.CLmax_landing)
    /\ loc[1].P_shaft_kW # constraint_analysis(config, 15000 * Q)[2]


\* C28: in the result of a sizing run for a battery of positive specific
\* energy, depth of discharge and specific power, the achieved C-rate is not
\* above the theoretical maximum C-rate reported with it, also when the power
\* constraint governs the battery mass.
C28_CRateWithinMaximum ==
    (/\ pc = "idle"
     /\ result # None
     /\ BatteryModelled(FromConfig(config))
     /\ FromConfig(config).battery_specific_power_kW_kg > 0)
    => result[1].battery_c_rate <= result[1].battery_c_rate_max


\* a * b equals c as far as the quotient a = c / b, kept to three decimals,
\* can tell: the product lies within b thousandths below c.
ProductIs(a, b, c) ==
    /\ MulDiv(a, b, Q) <= c
    /\ c - MulDiv(a, b, Q) <= b \div Q + 1

\* The weights of a result add up to its TOGW, its wing loading times its
\* wing area gives its TOGW, and its fuel is that of the mission totals of
\* the locals l with the 6 % reserve.
MassClosure(r, l) ==
    /\ r.TOGW_lb = r.OEW_lb + r.W_payload_lb + r.W_fuel_lb + r.W_battery_lb
    /\ ProductIs(r.WS_psf, r.S_wing_ft2, r.TOGW_lb)
    /\ r.W_fuel_lb = MulDiv(l.total_fuel_lb, 106, 100)
    /\ r.OEW_lb = l.OEW_lb
    /\ r.W_battery_lb = l.W_battery_lb
    /\ r.S_wing_ft2 = l.S_wing_ft2

\* C29: whenever size_aircraft has returned a result, converged or not, the
\* result's TOGW is the sum of its empty, payload, fuel and battery weights,
\* all of the last iteration run and the fuel with its 6 % reserve, its
\* wing loading times its wing area is its TOGW, and the aircraft stores the
\* returned TOGW, empty, fuel and battery weights, wing area and wing loading.
C29_MassClosure ==
    (pc = "idle" /\ result # None)
    => (/\ MassClosure(result[1], loc[1])
        /\ TOGW_lb = result[1].TOGW_lb
        /\ OEW_lb = result[1].OEW_lb
        /\ W_fuel_lb = result[1].W_fuel_lb
        /\ W_battery_lb = result[1].W_battery_lb
        /\ S_wing_ft2 = result[1].S_wing_ft2
        /\ WS_psf = result[1].WS_psf)

\* A run of two iterations has returned without having converged, with fuel
\* and battery in the result.
C29_Witness ==
    /\ pc = "idle"
    /\ result # None
    /\ ~result[1].converged
    /\ loc[1].iterations_run = 2
    /\ result[1].W_fuel_lb > 0
    /\ result[1].W_battery_lb > 0
    /\ result[1].TOGW_lb # 15000 * Q


\* The selection a set_powertrain call with the arguments of `call` is to
\* leave: <<powertrain, Hp_design, hybridization_profile>>.
SelectionFor(cfg, call) ==
    <<Some(NewPowertrain(cfg, Lower(call.architecture))),
      IF call.hybridization_profile # None
      THEN SeqMax(DictValues(call.hybridization_profile[1]))
      ELSE call.Hp_design,
      call.hybridization_profile>>

\* C30: a set_powertrain call either returns, with powertrain, Hp_design and
\* hybridization_profile all set as its arguments say, or raises, for an
\* unknown architecture or a profile without entries, and leaves all three
\* as they were before the call.
C30_SetPowertrainAllOrNothing ==
    [][(last_call'.op = "set_powertrain" /\ pc = "idle" /\ nsizings = 0)
       => IF raised' = "none"
          THEN <<powertrain', Hp_design', hybridization_profile'>>
                   = SelectionFor(config, last_call')
          ELSE UNCHANGED <<powertrain, Hp_design, hybridization_profile>>]_vars

-----------------------------------------------------------------------------
(* Properties of single calls (under SpecPT), continued                    *)

\* C24: a MultiEngine get_power_split call in one-engine-inoperative mode
\* reports one engine fewer than the powertrain has as operating, the
\* operating engines together supply the whole demand, and each splits its
\* share between turbine and motor by Hp.
C24_OEIRemainingEnginesTakeDemand ==
    (last_call.op = "get_power_split" /\ last_call.oei_mode)
    => (/\ result[1].num_operating_engines = powertrain[1].num_engines - 1
        /\ result[1].P_GT_kW + result[1].P_EM_kW = last_call.P_kW
        /\ result[1].P_EM_per_engine_kW =
               MulDiv(result[1].P_per_engine_kW, last_call.Hp, U)
        /\ result[1].P_GT_per_engine_kW =
               MulDiv(result[1].P_per_engine_kW, U - last_call.Hp, U))

====
